---------------------------- MODULE Spec2Model ----------------------------
(***************************************************************************)
(* Model of the cross-service statistics aggregator of campaign-service    *)
(* (src/src/lib/service-client.ts): fetchStats, getAggregatedStats and     *)
(* getStatsByModel, with the upstream services as the environment.         *)
(*                                                                         *)
(* One call is modelled from its invocation to its return.  JavaScript    *)
(* runs a callback to its next await without interruption, so an action   *)
(* is the code between two awaits: the call itself (argument check and,   *)
(* for a non-empty runIds list, the dispatch of every request), the       *)
(* settling of one fetch(), the settling of one response.json(), and the  *)
(* continuation after Promise.all.                                         *)
(*                                                                         *)
(* A second specification, SpecRoutes, models two HTTP routes with their  *)
(* middleware: POST /stats (src/src/routes/runs.ts) and POST /campaigns   *)
(* (src/src/routes/campaigns.ts), one request from arrival to response.   *)
(***************************************************************************)
EXTENDS Integers, Sequences, FiniteSets, TLC

(***************************************************************************)
(* Bounds of the model.                                                    *)
(***************************************************************************)
\* counters reported by an upstream range over 0..MaxVal
MaxVal == 2
\* runIds lists have at most MaxRunIds elements
MaxRunIds == 1

(***************************************************************************)
(* JavaScript values.  A counter read from a payload is a number or is    *)
(* absent (undefined); a sum with an absent operand is NaN.  Counters are *)
(* non-negative, so the two non-numbers are coded below zero.             *)
(***************************************************************************)
undefined == -1
NaN == -2

IsNumber(v) == v >= 0

\* a + b on numbers-or-undefined
JSAdd(a, b) == IF IsNumber(a) /\ IsNumber(b) THEN a + b ELSE NaN

\* v ?? d
Nullish(v, d) == IF v = undefined THEN d ELSE v

Vals == 0..MaxVal \cup {undefined}

(***************************************************************************)
(* Upstreams, in the order getAggregatedStats dispatches them.            *)
(***************************************************************************)
Upstreams == <<"apollo", "emailgen", "postmark", "instantly">>
Services == {Upstreams[k] : k \in 1..Len(Upstreams)}

\* the endpoint getStatsByModel queries (emailgen's /stats/by-model)
ByModel == "emailgen/by-model"
Endpoints == Services \cup {ByModel}

\* the service name getStatsByModel reports errors under
ByModelService == "emailgen"

SendingFields ==
    <<"emailsSent", "emailsOpened", "emailsClicked", "emailsReplied",
      "emailsBounced", "repliesWillingToMeet", "repliesInterested",
      "repliesNotInterested", "repliesOutOfOffice", "repliesUnsubscribe">>
SendingFieldSet == {SendingFields[k] : k \in 1..Len(SendingFields)}
AggregatedFieldSet == {"leadsFound", "emailsGenerated"} \cup SendingFieldSet

EMPTY_SENDING_STATS == [f \in SendingFieldSet |-> 0]

emptyStats == [f \in AggregatedFieldSet |-> 0]

(***************************************************************************)
(* Inputs of a call.                                                       *)
(***************************************************************************)
RunIdPool == <<"run-1", "run-2", "run-3">>
RunIdLists == {SubSeq(RunIdPool, 1, n) : n \in 0..MaxRunIds}
Orgs == {"org-1", "org-2"}
\* getStatsByModel takes no org context and sends no X-Clerk-Org-Id header
NoOrg == "-"

(***************************************************************************)
(* What an upstream can do.  fetch() either rejects with a thrown value   *)
(* or resolves with a response (a status); the body of a response is read *)
(* by response.json(), which rejects when the body is not JSON.           *)
(***************************************************************************)
Err(message, causeCode) ==
    [isError |-> TRUE, message |-> message, causeCode |-> causeCode]
\* a rejection with something that is not an Error (a thrown string, say):
\* it has neither a message nor a cause
NonError == [isError |-> FALSE, message |-> "", causeCode |-> "none"]

FetchRejections ==
    { Err("fetch failed", "ECONNREFUSED"),
      Err("fetch failed", "none"),
      Err("connection refused", "none"),
      NonError }

SyntaxError == Err("Unexpected token < in JSON at position 0", "none")
TypeErrorNull == Err("Cannot read properties of null (reading 'stats')", "none")

StatusCodes == {200, 500, 503}
ResponseOk(status) == status >= 200 /\ status <= 299


\* a response body as response.json() sees it: not JSON, the JSON value null,
\* or an object whose stats member is absent, null or a value
Body(kind, statsTag, stats) ==
    [kind |-> kind, statsTag |-> statsTag, stats |-> stats]
NoBody == Body("unread", "undefined", <<>>)
UnparseableBody == Body("unparseable", "undefined", <<>>)
NullBody == Body("null", "undefined", <<>>)
\* {}
EmptyObject == Body("object", "undefined", <<>>)
\* {stats: null}
StatsNull == Body("object", "null", <<>>)
\* {stats: p}
WithStats(p) == Body("object", "value", p)

MalformedBodies == {UnparseableBody, NullBody, EmptyObject, StatsNull}

(***************************************************************************)
(* Payloads.  A counter that the payload lacks reads as undefined.        *)
(***************************************************************************)
ApolloPayloads ==
    {[leadsFound |-> v, searchesCount |-> 2, totalPeopleFromSearches |-> 50] :
        v \in Vals}
EmailGenPayloads == {[emailsGenerated |-> v] : v \in Vals}

FieldIndex(f) == CHOOSE k \in 1..Len(SendingFields) : SendingFields[k] = f
\* every counter different: the k-th counter is k * scale
Ramp(scale) == [f \in SendingFieldSet |-> scale * FieldIndex(f)]
Without(p, g) == [p EXCEPT ![g] = undefined]
\* a stats value without any of the counters, e.g. {stats: {}} or {stats: 5}
AllAbsent == [f \in SendingFieldSet |-> undefined]
\* the counters left out of a payload, one at a time
MissingFields == {"emailsSent", "repliesUnsubscribe"}
SendingPayloads ==
    {Ramp(b) : b \in 0..MaxVal}
    \cup {Without(Ramp(1), g) : g \in MissingFields}
    \cup {AllAbsent}

ModelStat(model, count, ids) == [model |-> model, count |-> count, runIds |-> ids]
ByModelPayloads ==
    { <<>>,
      <<ModelStat("gpt-4o", 5, <<"run-1">>)>>,
      <<ModelStat("gpt-4o", 5, <<"run-1">>),
        ModelStat("claude-sonnet", 3, <<"run-2">>)>> }

Payloads(e) ==
    CASE e = "apollo" -> ApolloPayloads
      [] e = "emailgen" -> EmailGenPayloads
      [] e \in {"postmark", "instantly"} -> SendingPayloads
      [] e = ByModel -> ByModelPayloads

Bodies(e) == MalformedBodies \cup {WithStats(p) : p \in Payloads(e)}

\* what an upstream did, as far as the program has seen it
NoThrow == [isError |-> FALSE, message |-> "", causeCode |-> "none"]
NoResponse == [kind |-> "none", thrown |-> NoThrow, status |-> 0, body |-> NoBody]
Rejected(t) == [kind |-> "rejected", thrown |-> t, status |-> 0, body |-> NoBody]
Responded(status, body) ==
    [kind |-> "response", thrown |-> NoThrow, status |-> status, body |-> body]

(***************************************************************************)
(* fetchStats: the result of one upstream call.                            *)
(***************************************************************************)
Ok(data) == [ok |-> TRUE, service |-> "", error |-> "", data |-> data]
Failure(serviceName, msg) ==
    [ok |-> FALSE, service |-> serviceName, error |-> msg, data |-> <<>>]
Pending == [ok |-> FALSE, service |-> "", error |-> "", data |-> <<>>]

\* mutation: the cause of the thrown Error is not looked at
CatchMessage_NoCause(thrown) ==
    IF thrown.isError THEN thrown.message ELSE "unknown error"

\* the message computed by the catch blocks
CatchMessage(thrown) ==
    IF thrown.isError /\ thrown.causeCode = "ECONNREFUSED"
    THEN "connection refused"
    ELSE IF thrown.isError THEN thrown.message ELSE "unknown error"

\* mutation: the status is left out of the reason
HttpMessage_NoStatus(status) == "HTTP error"

\* `HTTP ${response.status}`
HttpMessage(status) == "HTTP " \o ToString(status)

\* mutation: the catch block rethrows, so the call has no outcome value
fetchStatsCatch_Rethrow(serviceName, thrown) == Pending

\* the catch block of fetchStats: lines 97-104
fetchStatsCatch(serviceName, thrown) == Failure(serviceName, CatchMessage(thrown))

\* mutation: a failure status is taken for a success whose counters hold
\* the status
fetchStatsNotOk_StatusCounted(serviceName, status) ==
    Ok([f \in AggregatedFieldSet |-> status])

fetchStatsNotOk(serviceName, status) == Failure(serviceName, HttpMessage(status))

ZeroPayload(serviceName) ==
    CASE serviceName = "apollo" ->
            [leadsFound |-> 0, searchesCount |-> 0, totalPeopleFromSearches |-> 0]
      [] serviceName = "emailgen" -> [emailsGenerated |-> 0]
      [] OTHER -> EMPTY_SENDING_STATS

\* mutation: a body without stats counts as a success reporting zeros
fetchStatsParsed_SilentZero(serviceName, body) ==
    IF body.kind = "unparseable" THEN fetchStatsCatch(serviceName, SyntaxError)
    ELSE IF body.kind = "null" THEN fetchStatsCatch(serviceName, TypeErrorNull)
    ELSE IF body.statsTag \in {"undefined", "null"}
         THEN Ok(ZeroPayload(serviceName))
         ELSE Ok(body.stats)

\* mutation: stats is read with `data?.stats`, so the JSON value null is a
\* body without stats
fetchStatsParsed_OptionalChain(serviceName, body) ==
    IF body.kind = "unparseable" THEN fetchStatsCatch(serviceName, SyntaxError)
    ELSE IF body.kind = "null" \/ body.statsTag \in {"undefined", "null"}
         THEN Failure(serviceName, "no stats in response")
         ELSE Ok(body.stats)

\* mutation: only an absent stats is checked (`data.stats === undefined`), so
\* {stats: null} passes as a success carrying null
fetchStatsParsed_NullPasses(serviceName, body) ==
    IF body.kind = "unparseable" THEN fetchStatsCatch(serviceName, SyntaxError)
    ELSE IF body.kind = "null" THEN fetchStatsCatch(serviceName, TypeErrorNull)
    ELSE IF body.statsTag = "undefined"
         THEN Failure(serviceName, "no stats in response")
         ELSE Ok(body.stats)

\* after `await response.json()`
fetchStatsParsed(serviceName, body) ==
    IF body.kind = "unparseable" THEN fetchStatsCatch(serviceName, SyntaxError)
    ELSE IF body.kind = "null" THEN fetchStatsCatch(serviceName, TypeErrorNull)
    ELSE IF body.statsTag \in {"undefined", "null"}
         THEN Failure(serviceName, "no stats in response")
         ELSE Ok(body.stats)

(***************************************************************************)
(* getAggregatedStats: the code after Promise.all.                         *)
(***************************************************************************)
StatsError(service, error) == [service |-> service, error |-> error]

RECURSIVE PushErrors(_, _)
\* `if (!r.ok) errors.push(...)` for each result of the list, in its order
PushErrors(rs, errors) ==
    IF rs = <<>> THEN errors
    ELSE PushErrors(Tail(rs),
                    IF Head(rs).ok THEN errors
                    ELSE Append(errors, StatsError(Head(rs).service, Head(rs).error)))

\* mutation: the check of the last result is missing
CollectErrors_SkipInstantly(apolloResult, emailGenResult, postmarkResult, instantlyResult) ==
    PushErrors(<<apolloResult, emailGenResult, postmarkResult>>, <<>>)

\* mutation: only the first failure is reported
CollectErrors_FirstOnly(apolloResult, emailGenResult, postmarkResult, instantlyResult) ==
    LET all == PushErrors(<<apolloResult, emailGenResult, postmarkResult,
                            instantlyResult>>, <<>>)
    IN IF all = <<>> THEN all ELSE <<Head(all)>>

\* mutation: the results are checked in another order than they were dispatched
CollectErrors_Reversed(apolloResult, emailGenResult, postmarkResult, instantlyResult) ==
    PushErrors(<<instantlyResult, postmarkResult, emailGenResult, apolloResult>>, <<>>)

CollectErrors(apolloResult, emailGenResult, postmarkResult, instantlyResult) ==
    PushErrors(<<apolloResult, emailGenResult, postmarkResult, instantlyResult>>, <<>>)

\* mutation: one sum reads the wrong counter of its first operand
addSendingStats_FieldSlip(a, b) ==
    [emailsSent |-> JSAdd(a.emailsSent, b.emailsSent),
     emailsOpened |-> JSAdd(a.emailsSent, b.emailsOpened),
     emailsClicked |-> JSAdd(a.emailsClicked, b.emailsClicked),
     emailsReplied |-> JSAdd(a.emailsReplied, b.emailsReplied),
     emailsBounced |-> JSAdd(a.emailsBounced, b.emailsBounced),
     repliesWillingToMeet |-> JSAdd(a.repliesWillingToMeet, b.repliesWillingToMeet),
     repliesInterested |-> JSAdd(a.repliesInterested, b.repliesInterested),
     repliesNotInterested |-> JSAdd(a.repliesNotInterested, b.repliesNotInterested),
     repliesOutOfOffice |-> JSAdd(a.repliesOutOfOffice, b.repliesOutOfOffice),
     repliesUnsubscribe |-> JSAdd(a.repliesUnsubscribe, b.repliesUnsubscribe)]

\* mutation: the records are spread, {...a, ...b}, instead of summed
addSendingStats_Spread(a, b) ==
    [f \in SendingFieldSet |-> IF b[f] # undefined THEN b[f] ELSE a[f]]

addSendingStats(a, b) ==
    [emailsSent |-> JSAdd(a.emailsSent, b.emailsSent),
     emailsOpened |-> JSAdd(a.emailsOpened, b.emailsOpened),
     emailsClicked |-> JSAdd(a.emailsClicked, b.emailsClicked),
     emailsReplied |-> JSAdd(a.emailsReplied, b.emailsReplied),
     emailsBounced |-> JSAdd(a.emailsBounced, b.emailsBounced),
     repliesWillingToMeet |-> JSAdd(a.repliesWillingToMeet, b.repliesWillingToMeet),
     repliesInterested |-> JSAdd(a.repliesInterested, b.repliesInterested),
     repliesNotInterested |-> JSAdd(a.repliesNotInterested, b.repliesNotInterested),
     repliesOutOfOffice |-> JSAdd(a.repliesOutOfOffice, b.repliesOutOfOffice),
     repliesUnsubscribe |-> JSAdd(a.repliesUnsubscribe, b.repliesUnsubscribe)]

SendingData(result) == IF result.ok THEN result.data ELSE EMPTY_SENDING_STATS

\* mutation: the delivery counters are merged only when both providers answered
MergeSending_BothOrNothing(postmarkResult, instantlyResult) ==
    IF postmarkResult.ok /\ instantlyResult.ok
    THEN addSendingStats(postmarkResult.data, instantlyResult.data)
    ELSE EMPTY_SENDING_STATS

MergeSending(postmarkResult, instantlyResult) ==
    addSendingStats(SendingData(postmarkResult), SendingData(instantlyResult))

BuildStats(apolloResult, emailGenResult, postmarkResult, instantlyResult) ==
    LET emailStats == MergeSending(postmarkResult, instantlyResult)
    IN [leadsFound |->
            IF apolloResult.ok THEN Nullish(apolloResult.data.leadsFound, 0) ELSE 0,
        emailsGenerated |->
            IF emailGenResult.ok THEN Nullish(emailGenResult.data.emailsGenerated, 0) ELSE 0,
        emailsSent |-> emailStats.emailsSent,
        emailsOpened |-> emailStats.emailsOpened,
        emailsClicked |-> emailStats.emailsClicked,
        emailsReplied |-> emailStats.emailsReplied,
        emailsBounced |-> emailStats.emailsBounced,
        repliesWillingToMeet |-> emailStats.repliesWillingToMeet,
        repliesInterested |-> emailStats.repliesInterested,
        repliesNotInterested |-> emailStats.repliesNotInterested,
        repliesOutOfOffice |-> emailStats.repliesOutOfOffice,
        repliesUnsubscribe |-> emailStats.repliesUnsubscribe]

\* mutation: the short-circuit never applies
IsEmpty_Never(ids) == Len(ids) < 0

\* `runIds.length === 0`
IsEmpty(ids) == Len(ids) = 0


(***************************************************************************)
(* State.                                                                  *)
(***************************************************************************)
VARIABLES
    pc,          \* position of the call: "idle", "await", "done" or "threw"
    fn,          \* the function called: getAggregatedStats or getStatsByModel
    runIds,      \* its runIds argument
    clerkOrgId,  \* its clerkOrgId argument (NoOrg for getStatsByModel)
    fetchCalls,  \* the requests handed to fetch(), in the order they were made
    fetchPc,     \* per endpoint: "idle", "fetching", "parsing" or "settled"
    response,    \* per endpoint: what the upstream answered so far
    results,     \* per upstream: the value its fetchStats promise resolved to
    outOfOrder,  \* some upstream call settled before one dispatched earlier
    ret          \* the value the call returned (meaningful when pc = "done")

\* the HTTP routes: one request from its arrival to its response
VARIABLES
    envApiKey,          \* process.env.CAMPAIGN_SERVICE_API_KEY
    routePc,            \* "idle", the await the request stands at, or "responded"
    req,                \* the request: route, headers, body, and req.orgId
    res,                \* the response sent: status and JSON body
    filteredStatsCalls, \* the arguments getFilteredStats was invoked with
    orgsTable,          \* the clerkOrgIds of the rows of table orgs
    campaignsTable      \* the rows of table campaigns, in insertion order

aggVars == <<pc, fn, runIds, clerkOrgId, fetchCalls, fetchPc, response, results,
             outOfOrder, ret>>
routeVars == <<envApiKey, routePc, req, res, filteredStatsCalls, orgsTable,
               campaignsTable>>
\* two getAggregatedStats calls running at the same time
VARIABLES
    twoCalls,         \* per call: pc, runIds, clerkOrgId and the returned value
    twoUpstreams,     \* per call and upstream: fetchPc, response and result
    sharedEmptyStats  \* the module's EMPTY_SENDING_STATS object

twoVars == <<twoCalls, twoUpstreams, sharedEmptyStats>>

\* the campaigns table under concurrent /campaigns/:id requests
VARIABLES
    migrated,       \* migration 0009 has run
    campaignRows,   \* campaign id -> its row, or NoRow
    created,        \* how many campaigns POST /campaigns has inserted
    patchInFlight,  \* per PATCH handler: the request between its find and its update
    lastRes         \* the response sent last, with the request it answers

crudVars == <<migrated, campaignRows, created, patchInFlight, lastRes>>

\* one POST /campaigns/batch-budget-usage request
VARIABLES
    batchPc,        \* "idle", "select", "tasks" or "responded"
    batchIds,       \* req.body.campaignIds
    batchTasks,     \* per requested id, in order: where its task is and what it has seen
    batchResults,   \* the results object: campaign id -> entry, or NoEntry
    batchRes        \* the response

batchVars == <<batchPc, batchIds, batchTasks, batchResults, batchRes>>

\* one getLeadsForRuns call
VARIABLES
    leadsPc,          \* "idle", "fetching", "parsing" or "done"
    leadsRunIds,      \* the runIds argument
    leadsOrg,         \* the clerkOrgId argument
    leadsFetchCalls,  \* the requests handed to fetch(), in order
    leadsOutcomes,    \* what each request did, in order of settlement
    allLeads,         \* the list the loop appends to
    leadsRet          \* the list returned

leadsVars == <<leadsPc, leadsRunIds, leadsOrg, leadsFetchCalls, leadsOutcomes,
               allLeads, leadsRet>>

\* one aggregateCompaniesFromLeads call
VARIABLES
    companiesPc,    \* "idle" or "done"
    leadsArg,       \* the leads argument
    companiesRet    \* the list returned

companiesVars == <<companiesPc, leadsArg, companiesRet>>

vars == <<aggVars, routeVars, twoVars, crudVars, batchVars, leadsVars, companiesVars>>
\* what a step of one part leaves alone
nonAggVars == <<routeVars, twoVars, crudVars, batchVars, leadsVars, companiesVars>>
nonRouteVars == <<aggVars, twoVars, crudVars, batchVars, leadsVars, companiesVars>>
nonTwoVars == <<aggVars, routeVars, crudVars, batchVars, leadsVars, companiesVars>>
nonCrudVars == <<aggVars, routeVars, twoVars, batchVars, leadsVars, companiesVars>>
nonBatchVars == <<aggVars, routeVars, twoVars, crudVars, leadsVars, companiesVars>>
nonLeadsVars == <<aggVars, routeVars, twoVars, crudVars, batchVars, companiesVars>>
nonCompaniesVars == <<aggVars, routeVars, twoVars, crudVars, batchVars, leadsVars>>

NoReturn == [stats |-> <<>>, errors |-> <<>>]

Request(endpoint, org, ids) ==
    [url |-> endpoint, method |-> "POST", clerkOrgId |-> org, body |-> [runIds |-> ids]]

AggInit ==
    /\ pc = "idle"
    /\ fn = "none"
    /\ runIds = <<>>
    /\ clerkOrgId = NoOrg
    /\ fetchCalls = <<>>
    /\ fetchPc = [e \in Endpoints |-> "idle"]
    /\ response = [e \in Endpoints |-> NoResponse]
    /\ results = [s \in Services |-> Pending]
    /\ outOfOrder = FALSE
    /\ ret = NoReturn

(***************************************************************************)
(* Values of the HTTP routes.  A header or a body member is a string or   *)
(* is not there.                                                           *)
(***************************************************************************)
Absent == "<absent>"
\* `!v` for a string or undefined
Falsy(v) == v \in {Absent, ""}

ExpectedKey == "test-api-key"
ApiKeyHeaders == {Absent, ExpectedKey, "wrong-key"}
TestOrg == "org_test_crud"
OrgHeaders == {Absent, TestOrg}

Res(status, body) == [status |-> status, body |-> body]
NoRes == Res(0, <<>>)
ErrorBody(message) == [error |-> message]

HttpRequest(route, apiKey, orgHeader, body) ==
    [route |-> route, apiKey |-> apiKey, clerkOrgIdHeader |-> orgHeader,
     sent |-> body, body |-> body, orgId |-> Absent]
NoRequest == HttpRequest("none", Absent, Absent, <<>>)

\* no request has arrived; the key is configured and the tables are empty
RoutesIdle ==
    /\ envApiKey = ExpectedKey
    /\ routePc = "idle"
    /\ req = NoRequest
    /\ res = NoRes
    /\ filteredStatsCalls = <<>>
    /\ orgsTable = {}
    /\ campaignsTable = <<>>


\* position of an upstream in the dispatch order
DispatchIndex(s) == CHOOSE k \in 1..Len(Upstreams) : Upstreams[k] = s

\* s settles now: is an upstream dispatched before it still unsettled?
OvertakesNow(s) ==
    \E k \in 1..(DispatchIndex(s) - 1) : fetchPc[Upstreams[k]] # "settled"

\* mutation: the third call's URL is copied to the fourth
DispatchRequests_UrlSlip(org, ids) ==
    [k \in 1..Len(Upstreams) |->
        Request(IF k = 4 THEN Upstreams[3] ELSE Upstreams[k], org, ids)]

\* mutation: the list starts with emailgen, apollo second
DispatchRequests_Swapped(org, ids) ==
    [k \in 1..Len(Upstreams) |->
        Request(Upstreams[IF k = 1 THEN 2 ELSE IF k = 2 THEN 1 ELSE k], org, ids)]

\* the four fetchStats calls of Promise.all's argument list, lines 313-316:
\* one request per upstream, in the order of the list
DispatchRequests(org, ids) ==
    [k \in 1..Len(Upstreams) |-> Request(Upstreams[k], org, ids)]

(***************************************************************************)
(* getAggregatedStats(ids, org) is called: lines 297-317 up to the await. *)
(* Promise.all's argument list calls fetchStats four times, and each call *)
(* runs up to its `await fetch(...)`, so the four requests are made here. *)
(***************************************************************************)
CallAggregated(ids, org) ==
    /\ pc = "idle"
    /\ fn' = "getAggregatedStats"
    /\ runIds' = ids
    /\ clerkOrgId' = org
    /\ IF IsEmpty(ids)
       THEN /\ ret' = [stats |-> emptyStats, errors |-> <<>>]
            /\ pc' = "done"
            /\ UNCHANGED <<fetchCalls, fetchPc>>
       ELSE /\ fetchCalls' = fetchCalls \o DispatchRequests(org, ids)
            /\ fetchPc' = [e \in Endpoints |->
                              IF e \in Services THEN "fetching" ELSE fetchPc[e]]
            /\ pc' = "await"
            /\ UNCHANGED ret
    /\ UNCHANGED <<response, results, outOfOrder>>
    /\ UNCHANGED nonAggVars

\* the fetch() of upstream s rejects: lines 97-104
FetchRejects(s, thrown) ==
    /\ fetchPc[s] = "fetching"
    /\ response' = [response EXCEPT ![s] = Rejected(thrown)]
    /\ results' = [results EXCEPT ![s] = fetchStatsCatch(s, thrown)]
    /\ fetchPc' = [fetchPc EXCEPT ![s] = "settled"]
    /\ outOfOrder' = (outOfOrder \/ OvertakesNow(s))
    /\ UNCHANGED <<pc, fn, runIds, clerkOrgId, fetchCalls, ret>>
    /\ UNCHANGED nonAggVars

\* the fetch() of upstream s resolves with a response: lines 79-91
FetchResolves(s, status) ==
    /\ fetchPc[s] = "fetching"
    /\ response' = [response EXCEPT ![s] = Responded(status, NoBody)]
    /\ IF ~ResponseOk(status)
       THEN /\ results' = [results EXCEPT ![s] = fetchStatsNotOk(s, status)]
            /\ fetchPc' = [fetchPc EXCEPT ![s] = "settled"]
            /\ outOfOrder' = (outOfOrder \/ OvertakesNow(s))
       ELSE /\ fetchPc' = [fetchPc EXCEPT ![s] = "parsing"]
            /\ UNCHANGED <<results, outOfOrder>>
    /\ UNCHANGED <<pc, fn, runIds, clerkOrgId, fetchCalls, ret>>
    /\ UNCHANGED nonAggVars

\* response.json() of upstream s settles on the body it received: lines 91-104
JsonSettles(s, body) ==
    /\ fetchPc[s] = "parsing"
    /\ response' = [response EXCEPT ![s].body = body]
    /\ results' = [results EXCEPT ![s] = fetchStatsParsed(s, body)]
    /\ fetchPc' = [fetchPc EXCEPT ![s] = "settled"]
    /\ outOfOrder' = (outOfOrder \/ OvertakesNow(s))
    /\ UNCHANGED <<pc, fn, runIds, clerkOrgId, fetchCalls, ret>>
    /\ UNCHANGED nonAggVars

\* mutation: the join gives up at the first failed call, as Promise.all does
\* for promises that reject
PromiseAllResolved_FirstFailure ==
    \/ \A s \in Services : fetchPc[s] = "settled"
    \/ \E s \in Services : fetchPc[s] = "settled" /\ ~results[s].ok

\* mutation: the join resolves only when every call succeeded
PromiseAllResolved_AllOk ==
    \A s \in Services : fetchPc[s] = "settled" /\ results[s].ok

\* `await Promise.all([...])` of lines 312-317: fetchStats never rejects, so
\* the join resolves when the four promises have resolved
PromiseAllResolved == \A s \in Services : fetchPc[s] = "settled"

\* reading a counter of the result's data (lines 328, 332, 333) raises a
\* TypeError when the data is null or undefined
ReadThrows(result) == result.ok /\ result.data = <<>>

\* Promise.all has resolved: lines 319-346.  Nothing catches an exception
\* here, so a raising read makes the call raise instead of returning.
ReturnAggregated ==
    /\ pc = "await"
    /\ fn = "getAggregatedStats"
    /\ PromiseAllResolved
    /\ IF \E s \in Services : ReadThrows(results[s])
       THEN /\ pc' = "threw"
            /\ UNCHANGED ret
       ELSE /\ ret' = [stats |-> BuildStats(results["apollo"], results["emailgen"],
                                            results["postmark"], results["instantly"]),
                       errors |-> CollectErrors(results["apollo"], results["emailgen"],
                                                results["postmark"], results["instantly"])]
            /\ pc' = "done"
    /\ UNCHANGED <<fn, runIds, clerkOrgId, fetchCalls, fetchPc, response, results,
                   outOfOrder>>
    /\ UNCHANGED nonAggVars

(***************************************************************************)
(* getStatsByModel(ids): lines 239-270.                                    *)
(***************************************************************************)
\* mutation: the failure is swallowed
ByModelFailure_Swallowed(msg) == [stats |-> <<>>, errors |-> <<>>]

ByModelFailure(msg) ==
    [stats |-> <<>>, errors |-> <<StatsError(ByModelService, msg)>>]

\* `data.stats || []`
ByModelSuccess(body) ==
    [stats |-> IF body.statsTag = "value" THEN body.stats ELSE <<>>,
     errors |-> <<>>]

\* after `await response.json()`: lines 260-269
ByModelParsed(body) ==
    IF body.kind = "unparseable" THEN ByModelFailure(CatchMessage(SyntaxError))
    ELSE IF body.kind = "null" THEN ByModelFailure(CatchMessage(TypeErrorNull))
    ELSE ByModelSuccess(body)

CallByModel(ids) ==
    /\ pc = "idle"
    /\ fn' = "getStatsByModel"
    /\ runIds' = ids
    /\ clerkOrgId' = NoOrg
    /\ IF IsEmpty(ids)
       THEN /\ ret' = [stats |-> <<>>, errors |-> <<>>]
            /\ pc' = "done"
            /\ UNCHANGED <<fetchCalls, fetchPc>>
       ELSE /\ fetchCalls' = Append(fetchCalls, Request(ByModel, NoOrg, ids))
            /\ fetchPc' = [fetchPc EXCEPT ![ByModel] = "fetching"]
            /\ pc' = "await"
            /\ UNCHANGED ret
    /\ UNCHANGED <<response, results, outOfOrder>>
    /\ UNCHANGED nonAggVars

ByModelFetchRejects(thrown) ==
    /\ fetchPc[ByModel] = "fetching"
    /\ response' = [response EXCEPT ![ByModel] = Rejected(thrown)]
    /\ fetchPc' = [fetchPc EXCEPT ![ByModel] = "settled"]
    /\ ret' = ByModelFailure(CatchMessage(thrown))
    /\ pc' = "done"
    /\ UNCHANGED <<fn, runIds, clerkOrgId, fetchCalls, results, outOfOrder>>
    /\ UNCHANGED nonAggVars

ByModelFetchResolves(status) ==
    /\ fetchPc[ByModel] = "fetching"
    /\ response' = [response EXCEPT ![ByModel] = Responded(status, NoBody)]
    /\ IF ~ResponseOk(status)
       THEN /\ ret' = ByModelFailure(HttpMessage(status))
            /\ fetchPc' = [fetchPc EXCEPT ![ByModel] = "settled"]
            /\ pc' = "done"
       ELSE /\ fetchPc' = [fetchPc EXCEPT ![ByModel] = "parsing"]
            /\ UNCHANGED <<ret, pc>>
    /\ UNCHANGED <<fn, runIds, clerkOrgId, fetchCalls, results, outOfOrder>>
    /\ UNCHANGED nonAggVars

ByModelJsonSettles(body) ==
    /\ fetchPc[ByModel] = "parsing"
    /\ response' = [response EXCEPT ![ByModel].body = body]
    /\ fetchPc' = [fetchPc EXCEPT ![ByModel] = "settled"]
    /\ ret' = ByModelParsed(body)
    /\ pc' = "done"
    /\ UNCHANGED <<fn, runIds, clerkOrgId, fetchCalls, results, outOfOrder>>
    /\ UNCHANGED nonAggVars


(***************************************************************************)
(* The middleware of the routes (src/middleware/auth.ts, validate.ts).    *)
(* A middleware either responds, which ends the request, or calls next(), *)
(* written NoRes here.                                                     *)
(***************************************************************************)
requireApiKey(apiKey, expectedKey) ==
    IF Falsy(expectedKey) THEN Res(500, ErrorBody("API key not configured"))
    ELSE IF Falsy(apiKey) \/ apiKey # expectedKey
         THEN Res(401, ErrorBody("Invalid or missing API key"))
         ELSE NoRes

\* serviceAuth before its first await
serviceAuthHeader(orgHeader) ==
    IF Falsy(orgHeader) THEN Res(400, ErrorBody("x-clerk-org-id header required"))
    ELSE NoRes

\* validateBody: the first issue of the failed parse becomes the error
validateBody(issues) ==
    IF issues # <<>> THEN Res(400, ErrorBody(Head(issues))) ELSE NoRes

(***************************************************************************)
(* POST /stats (src/routes/runs.ts, lines 432-450).                        *)
(***************************************************************************)
FilterFields == {"clerkOrgId", "appId", "brandId", "campaignId"}
FilterValues == {Absent, "", "id-1"}
FilterBodies == [FilterFields -> FilterValues]

NoFilterMessage ==
    "At least one filter required: clerkOrgId, appId, brandId, or campaignId"

\* mutation: only a member that is not there counts as missing
NoFilter_OnlyUndefined(body) == \A f \in FilterFields : body[f] = Absent

\* `!clerkOrgId && !appId && !brandId && !campaignId`
NoFilter(body) ==
    /\ Falsy(body.clerkOrgId)
    /\ Falsy(body.appId)
    /\ Falsy(body.brandId)
    /\ Falsy(body.campaignId)

\* what getFilteredStats can resolve to: an aggregation result
FilteredStatsResults ==
    { [stats |-> emptyStats, errors |-> <<>>],
      [stats |-> [emptyStats EXCEPT !.emailsSent = 2], errors |-> <<>>],
      [stats |-> emptyStats, errors |-> <<StatsError("postmark", "HTTP 500")>>] }

\* `{ stats, serviceErrors: errors.length > 0 ? errors : undefined }`
StatsResponseBody(result) ==
    IF Len(result.errors) > 0
    THEN [stats |-> result.stats, serviceErrors |-> result.errors]
    ELSE [stats |-> result.stats]

\* the request arrives: requireApiKey, then the handler up to its await
PostStats(apiKey, body) ==
    /\ routePc = "idle"
    /\ req' = HttpRequest("POST /stats", apiKey, Absent, body)
    /\ IF requireApiKey(apiKey, envApiKey) # NoRes
       THEN /\ res' = requireApiKey(apiKey, envApiKey)
            /\ routePc' = "responded"
            /\ UNCHANGED filteredStatsCalls
       ELSE IF NoFilter(body)
       THEN /\ res' = Res(400, ErrorBody(NoFilterMessage))
            /\ routePc' = "responded"
            /\ UNCHANGED filteredStatsCalls
       ELSE /\ filteredStatsCalls' = Append(filteredStatsCalls, body)
            /\ routePc' = "getFilteredStats"
            /\ UNCHANGED res
    /\ UNCHANGED <<envApiKey, orgsTable, campaignsTable>>
    /\ UNCHANGED nonRouteVars

\* getFilteredStats resolves: line 442
FilteredStatsReturns(result) ==
    /\ routePc = "getFilteredStats"
    /\ res' = Res(200, StatsResponseBody(result))
    /\ routePc' = "responded"
    /\ UNCHANGED <<envApiKey, req, filteredStatsCalls, orgsTable, campaignsTable>>
    /\ UNCHANGED nonRouteVars

\* getFilteredStats rejects: the catch of lines 446-449
FilteredStatsThrows ==
    /\ routePc = "getFilteredStats"
    /\ res' = Res(500, ErrorBody("Internal server error"))
    /\ routePc' = "responded"
    /\ UNCHANGED <<envApiKey, req, filteredStatsCalls, orgsTable, campaignsTable>>
    /\ UNCHANGED nonRouteVars

(***************************************************************************)
(* POST /campaigns (src/routes/campaigns.ts, lines 242-301): requireApiKey, *)
(* serviceAuth, validateBody(CreateCampaignBody), then the handler.  The  *)
(* requests carry no x-clerk-user-id header, so serviceAuth looks up the  *)
(* org only.  A database call resolves or rejects.                         *)
(***************************************************************************)
TestBrandId == "123e4567-e89b-42d3-a456-426614174000"
\* a column that holds NULL
Null == "<null>"

CampaignBodies ==
    [name : {Absent, "", "Test Campaign"},
     brandUrl : {Absent, "https://example.com"},
     brandId : {Absent, "not-a-uuid", TestBrandId},
     appId : {Absent, "mcpfactory"},
     clerkOrgId : {Absent, TestOrg}]

\* the issues CreateCampaignBody.safeParse reports, in the order of its
\* members: name and brandUrl are the only required ones
CreateCampaignBodyIssues(body) ==
    (IF body.name = Absent THEN <<"Required">>
     ELSE IF body.name = "" THEN <<"Campaign name is required">>
     ELSE <<>>)
    \o (IF body.brandUrl = Absent THEN <<"Required">>
        ELSE IF body.brandUrl = "" THEN <<"brandUrl is required">>
        ELSE <<>>)

\* the parsed data: the members the schema does not know are stripped
CreateCampaignBodyData(body) ==
    [name |-> body.name, brandUrl |-> body.brandUrl, appId |-> body.appId]

\* the id of the orgs row of a clerkOrgId
OrgRowId(org) == "row-of-" \o org

\* the row the handler inserts, as far as the request decides it; brandId is
\* not among the inserted values
CampaignRow(id, orgId, data) ==
    [id |-> id, orgId |-> orgId, name |-> data.name,
     appId |-> IF Falsy(data.appId) THEN Null ELSE data.appId,
     brandId |-> Null, status |-> "ongoing"]

\* the request arrives: requireApiKey, then serviceAuth up to its first await
PostCampaigns(apiKey, orgHeader, body) ==
    /\ routePc = "idle"
    /\ req' = HttpRequest("POST /campaigns", apiKey, orgHeader, body)
    /\ IF requireApiKey(apiKey, envApiKey) # NoRes
       THEN /\ res' = requireApiKey(apiKey, envApiKey)
            /\ routePc' = "responded"
       ELSE IF serviceAuthHeader(orgHeader) # NoRes
       THEN /\ res' = serviceAuthHeader(orgHeader)
            /\ routePc' = "responded"
       ELSE /\ routePc' = "orgs.findFirst"
            /\ UNCHANGED res
    /\ UNCHANGED <<envApiKey, filteredStatsCalls, orgsTable, campaignsTable>>
    /\ UNCHANGED nonRouteVars

\* serviceAuth has set req.orgId and called next(): validateBody, then the
\* handler up to its await of the insert
EnterCreateCampaign(orgId) ==
    IF validateBody(CreateCampaignBodyIssues(req.body)) # NoRes
    THEN /\ req' = [req EXCEPT !.orgId = orgId]
         /\ res' = validateBody(CreateCampaignBodyIssues(req.body))
         /\ routePc' = "responded"
    ELSE /\ req' = [req EXCEPT !.orgId = orgId,
                               !.body = CreateCampaignBodyData(req.body)]
         /\ routePc' = "campaigns.insert"
         /\ UNCHANGED res

ServiceAuthFailed ==
    /\ res' = Res(401, ErrorBody("Service authentication failed"))
    /\ routePc' = "responded"
    /\ UNCHANGED req

\* db.query.orgs.findFirst settles
OrgFindSettles(dbOk) ==
    /\ routePc = "orgs.findFirst"
    /\ IF ~dbOk THEN ServiceAuthFailed
       ELSE IF req.clerkOrgIdHeader \in orgsTable
       THEN EnterCreateCampaign(OrgRowId(req.clerkOrgIdHeader))
       ELSE /\ routePc' = "orgs.insert"
            /\ UNCHANGED <<req, res>>
    /\ UNCHANGED <<envApiKey, filteredStatsCalls, orgsTable, campaignsTable>>
    /\ UNCHANGED nonRouteVars

\* db.insert(orgs) settles
OrgInsertSettles(dbOk) ==
    /\ routePc = "orgs.insert"
    /\ IF ~dbOk
       THEN /\ ServiceAuthFailed
            /\ UNCHANGED orgsTable
       ELSE /\ orgsTable' = orgsTable \cup {req.clerkOrgIdHeader}
            /\ EnterCreateCampaign(OrgRowId(req.clerkOrgIdHeader))
    /\ UNCHANGED <<envApiKey, filteredStatsCalls, campaignsTable>>
    /\ UNCHANGED nonRouteVars

\* db.insert(campaigns) settles: lines 268-300
CampaignInsertSettles(dbOk) ==
    /\ routePc = "campaigns.insert"
    /\ IF dbOk
       THEN LET campaign == CampaignRow(Len(campaignsTable) + 1, req.orgId, req.body)
            IN /\ campaignsTable' = Append(campaignsTable, campaign)
               /\ res' = Res(201, [campaign |-> campaign])
       ELSE /\ res' = Res(500, ErrorBody("Internal server error"))
            /\ UNCHANGED campaignsTable
    /\ routePc' = "responded"
    /\ UNCHANGED <<envApiKey, req, filteredStatsCalls, orgsTable>>
    /\ UNCHANGED nonRouteVars


\* one rejection with a cause and one without, one payload per upstream
LiveRejections == {Err("fetch failed", "ECONNREFUSED"), NonError}
LivePayload(s) ==
    CASE s = "apollo" ->
            [leadsFound |-> 1, searchesCount |-> 2, totalPeopleFromSearches |-> 50]
      [] s = "emailgen" -> [emailsGenerated |-> 1]
      [] OTHER -> Ramp(1)
LiveBodies(s) == MalformedBodies \cup {WithStats(LivePayload(s))}


(***************************************************************************)
(* Two concurrent getAggregatedStats calls (lines 272-347).  Each call    *)
(* has its own locals (body, errors, the four results); the one object    *)
(* the calls share is the module-level EMPTY_SENDING_STATS, which a call  *)
(* passes to addSendingStats in place of the data of a failed provider.   *)
(***************************************************************************)
CallIds == {1, 2}
IdleCall == [pc |-> "idle", runIds |-> <<>>, clerkOrgId |-> NoOrg, ret |-> NoReturn]
IdleUpstream == [fetchPc |-> "idle", response |-> NoResponse, result |-> Pending]

TwoIdle ==
    /\ twoCalls = [c \in CallIds |-> IdleCall]
    /\ twoUpstreams = [c \in CallIds |-> [s \in Services |-> IdleUpstream]]
    /\ sharedEmptyStats = EMPTY_SENDING_STATS

\* the second call asks for the same runs as the first or for others
TwoRunIds(c) == IF c = 1 THEN {<<"run-1">>} ELSE {<<"run-1">>, <<"run-2">>}

\* what the upstreams do here: each can answer 500 or 200 with a payload;
\* emailgen can also refuse the connection, postmark answer 200 with {},
\* instantly answer 503
TwoRejections(s) ==
    IF s = "emailgen" THEN {Err("fetch failed", "ECONNREFUSED")} ELSE {}
TwoStatuses(s) == IF s = "instantly" THEN {200, 500, 503} ELSE {200, 500}
TwoBodies(s) ==
    CASE s = "postmark" -> {EmptyObject, WithStats(Ramp(1)), WithStats(Ramp(2))}
      [] OTHER -> {WithStats(LivePayload(s))}

\* mutation: addSendingStats accumulates into its first operand (a.x += b.x)
FirstOperandAfterAdd_InPlace(a, b) == addSendingStats(a, b)

\* the first operand once addSendingStats(a, b) has returned: the function
\* builds a new object (lines 279-290) and writes to neither operand
FirstOperandAfterAdd(a, b) == a

\* lines 326-327: the data of a provider, or the shared object if it failed
ProviderData(result) == IF result.ok THEN result.data ELSE sharedEmptyStats

TwoSettled(c) == \A s \in Services : twoUpstreams[c][s].fetchPc = "settled"

TwoCall(c, ids, org) ==
    /\ twoCalls[c].pc = "idle"
    /\ IF IsEmpty(ids)
       THEN /\ twoCalls' = [twoCalls EXCEPT ![c] =
                    [pc |-> "done", runIds |-> ids, clerkOrgId |-> org,
                     ret |-> [stats |-> emptyStats, errors |-> <<>>]]]
            /\ UNCHANGED twoUpstreams
       ELSE /\ twoCalls' = [twoCalls EXCEPT ![c] =
                    [pc |-> "await", runIds |-> ids, clerkOrgId |-> org,
                     ret |-> NoReturn]]
            /\ twoUpstreams' = [twoUpstreams EXCEPT ![c] =
                    [s \in Services |-> [IdleUpstream EXCEPT !.fetchPc = "fetching"]]]
    /\ UNCHANGED sharedEmptyStats
    /\ UNCHANGED nonTwoVars

TwoFetchRejects(c, s, thrown) ==
    /\ twoUpstreams[c][s].fetchPc = "fetching"
    /\ twoUpstreams' = [twoUpstreams EXCEPT ![c][s] =
            [fetchPc |-> "settled", response |-> Rejected(thrown),
             result |-> fetchStatsCatch(s, thrown)]]
    /\ UNCHANGED <<twoCalls, sharedEmptyStats>>
    /\ UNCHANGED nonTwoVars

TwoFetchResolves(c, s, status) ==
    /\ twoUpstreams[c][s].fetchPc = "fetching"
    /\ twoUpstreams' = [twoUpstreams EXCEPT ![c][s] =
            IF ~ResponseOk(status)
            THEN [fetchPc |-> "settled", response |-> Responded(status, NoBody),
                  result |-> fetchStatsNotOk(s, status)]
            ELSE [fetchPc |-> "parsing", response |-> Responded(status, NoBody),
                  result |-> Pending]]
    /\ UNCHANGED <<twoCalls, sharedEmptyStats>>
    /\ UNCHANGED nonTwoVars

TwoJsonSettles(c, s, body) ==
    /\ twoUpstreams[c][s].fetchPc = "parsing"
    /\ twoUpstreams' = [twoUpstreams EXCEPT ![c][s] =
            [fetchPc |-> "settled",
             response |-> [twoUpstreams[c][s].response EXCEPT !.body = body],
             result |-> fetchStatsParsed(s, body)]]
    /\ UNCHANGED <<twoCalls, sharedEmptyStats>>
    /\ UNCHANGED nonTwoVars

\* the continuation of call c after its Promise.all: lines 319-346
TwoReturn(c) ==
    /\ twoCalls[c].pc = "await"
    /\ TwoSettled(c)
    /\ LET r == [s \in Services |-> twoUpstreams[c][s].result]
           postmarkData == ProviderData(r["postmark"])
           instantlyData == ProviderData(r["instantly"])
       IN /\ twoCalls' = [twoCalls EXCEPT ![c].pc = "done", ![c].ret =
                  [stats |-> BuildStats(r["apollo"], r["emailgen"],
                                        Ok(postmarkData), Ok(instantlyData)),
                   errors |-> CollectErrors(r["apollo"], r["emailgen"],
                                            r["postmark"], r["instantly"])]]
          /\ sharedEmptyStats' =
                 IF r["postmark"].ok THEN sharedEmptyStats
                 ELSE FirstOperandAfterAdd(postmarkData, instantlyData)
    /\ UNCHANGED twoUpstreams
    /\ UNCHANGED nonTwoVars


(***************************************************************************)
(* The /campaigns/:id routes of src/routes/campaigns.ts on the campaigns  *)
(* table: POST /campaigns (242-301), GET (217-237), PATCH (306-338) and   *)
(* DELETE (343-364), and migration 0009.  requireApiKey has passed; each  *)
(* database call is one step, so GET, POST and DELETE handlers are one    *)
(* step and a PATCH handler is two (its find, then its update), between   *)
(* which other requests are served.                                        *)
(***************************************************************************)
MaxCreated == 1

\* campaigns 1 and 2 are there before the first request; POST /campaigns
\* gives each new row the next id
CampaignIds == 1..(2 + MaxCreated)
\* the x-clerk-org-id header of a request; serviceAuth answers 400 without one
CrudOrgHeaders == {"org_a", "org_b"}
\* PATCH handlers that can be between their find and their update
PatchHandlers == {1}

NoRow == <<>>
\* the columns of a campaign the routes decide on
Row(orgId, status) == [orgId |-> orgId, status |-> status]
\* statuses written before migration 0009 (draft, paused, active, null)
LegacyStatuses == {"active", Null}

\* a PATCH body: its status member; the other members are columns the
\* model does not follow
UpdateBody(status) == [status |-> status]
PatchBodies ==
    {UpdateBody("activate"), UpdateBody("stop"), UpdateBody(Absent), UpdateBody("paused")}

\* mutation: status is any string
UpdateCampaignBodyIssues_AnyStatus(body) == <<>>

\* UpdateCampaignBody (src/schemas.ts 66-87): status is one of the enum
UpdateCampaignBodyIssues(body) ==
    IF body.status \notin {Absent, "activate", "stop"}
    THEN <<"Invalid enum value">>
    ELSE <<>>

\* statusMap[updates.status] ?? updates.status: lines 321, 324
statusMap(status) ==
    CASE status = "activate" -> "ongoing"
      [] status = "stop" -> "stopped"
      [] OTHER -> status

\* .set(updates): lines 322-329
ApplyUpdates(row, body) ==
    [row EXCEPT !.status = IF Falsy(body.status) THEN @ ELSE statusMap(body.status)]

\* mutation: the lookup filters by id alone
findFirst_AnyOrg(id, orgId) == campaignRows[id]

\* findFirst where id = :id and orgId = req.orgId: lines 221-226, 310-315
findFirst(id, orgId) ==
    IF campaignRows[id] # NoRow /\ campaignRows[id].orgId = orgId
    THEN campaignRows[id]
    ELSE NoRow

CrudRes(method, id, orgId, status, campaign, before) ==
    [method |-> method, id |-> id, orgId |-> orgId, status |-> status,
     campaign |-> campaign, before |-> before]
NoCrudRes == CrudRes("none", 0, Absent, 0, NoRow, NoRow)
NoPatch == [id |-> 0, orgId |-> Absent, body |-> UpdateBody(Absent)]

CrudIdle ==
    /\ migrated = FALSE
    /\ campaignRows = [id \in CampaignIds |-> NoRow]
    /\ created = 0
    /\ patchInFlight = [h \in PatchHandlers |-> NoPatch]
    /\ lastRes = NoCrudRes

\* drizzle/0009_normalize_status.sql, line 3
RunMigration0009 ==
    /\ ~migrated
    /\ migrated' = TRUE
    /\ campaignRows' =
          [id \in CampaignIds |->
              IF campaignRows[id] = NoRow THEN NoRow
              ELSE [campaignRows[id] EXCEPT
                       !.status = IF @ = Null \/ @ # "ongoing" THEN "stopped" ELSE @]]
    /\ UNCHANGED <<created, patchInFlight, lastRes>>
    /\ UNCHANGED nonCrudVars

\* POST /campaigns: serviceAuth, then the insert with status "ongoing"
CreateCampaign(orgHeader) ==
    /\ created < MaxCreated
    /\ IF serviceAuthHeader(orgHeader) # NoRes
       THEN /\ lastRes' = CrudRes("POST", 0, Absent, 400, NoRow, NoRow)
            /\ UNCHANGED <<campaignRows, created>>
       ELSE LET id == 2 + created + 1
                row == Row(OrgRowId(orgHeader), "ongoing")
            IN /\ campaignRows' = [campaignRows EXCEPT ![id] = row]
               /\ created' = created + 1
               /\ lastRes' = CrudRes("POST", id, OrgRowId(orgHeader), 201, row, NoRow)
    /\ UNCHANGED <<migrated, patchInFlight>>
    /\ UNCHANGED nonCrudVars

\* GET /campaigns/:id
GetCampaign(orgHeader, id) ==
    /\ IF serviceAuthHeader(orgHeader) # NoRes
       THEN lastRes' = CrudRes("GET", id, Absent, 400, NoRow, campaignRows[id])
       ELSE LET campaign == findFirst(id, OrgRowId(orgHeader))
            IN lastRes' = CrudRes("GET", id, OrgRowId(orgHeader),
                                  IF campaign = NoRow THEN 404 ELSE 200,
                                  campaign, campaignRows[id])
    /\ UNCHANGED <<migrated, campaignRows, created, patchInFlight>>
    /\ UNCHANGED nonCrudVars

\* PATCH /campaigns/:id up to the await of its update: serviceAuth,
\* validateBody, the find and the 404 (lines 306-319)
PatchCampaign(h, orgHeader, id, body) ==
    /\ patchInFlight[h] = NoPatch
    /\ IF serviceAuthHeader(orgHeader) # NoRes
       THEN /\ lastRes' = CrudRes("PATCH", id, Absent, 400, NoRow, campaignRows[id])
            /\ UNCHANGED patchInFlight
       ELSE IF validateBody(UpdateCampaignBodyIssues(body)) # NoRes
       THEN /\ lastRes' = CrudRes("PATCH", id, OrgRowId(orgHeader), 400, NoRow,
                                  campaignRows[id])
            /\ UNCHANGED patchInFlight
       ELSE IF findFirst(id, OrgRowId(orgHeader)) = NoRow
       THEN /\ lastRes' = CrudRes("PATCH", id, OrgRowId(orgHeader), 404, NoRow,
                                  campaignRows[id])
            /\ UNCHANGED patchInFlight
       ELSE /\ patchInFlight' = [patchInFlight EXCEPT ![h] =
                    [id |-> id, orgId |-> OrgRowId(orgHeader), body |-> body]]
            /\ UNCHANGED lastRes
    /\ UNCHANGED <<migrated, campaignRows, created>>
    /\ UNCHANGED nonCrudVars

\* the update of a PATCH, where id = :id, and its response: lines 321-333.
\* `updated` is undefined when no row has the id (NoRow here).
PatchUpdateSettles(h) ==
    /\ patchInFlight[h] # NoPatch
    /\ LET p == patchInFlight[h]
           updated == IF campaignRows[p.id] = NoRow THEN NoRow
                      ELSE ApplyUpdates(campaignRows[p.id], p.body)
       IN /\ campaignRows' = [campaignRows EXCEPT ![p.id] = updated]
          /\ lastRes' = CrudRes("PATCH", p.id, p.orgId, 200, updated, campaignRows[p.id])
    /\ patchInFlight' = [patchInFlight EXCEPT ![h] = NoPatch]
    /\ UNCHANGED <<migrated, created>>
    /\ UNCHANGED nonCrudVars

\* DELETE /campaigns/:id: one delete where id = :id and orgId = req.orgId
DeleteCampaign(orgHeader, id) ==
    /\ IF serviceAuthHeader(orgHeader) # NoRes
       THEN /\ lastRes' = CrudRes("DELETE", id, Absent, 400, NoRow, campaignRows[id])
            /\ UNCHANGED campaignRows
       ELSE LET result == findFirst(id, OrgRowId(orgHeader))
            IN IF result = NoRow
               THEN /\ lastRes' = CrudRes("DELETE", id, OrgRowId(orgHeader), 404,
                                          NoRow, campaignRows[id])
                    /\ UNCHANGED campaignRows
               ELSE /\ campaignRows' = [campaignRows EXCEPT ![id] = NoRow]
                    /\ lastRes' = CrudRes("DELETE", id, OrgRowId(orgHeader), 200,
                                          NoRow, campaignRows[id])
    /\ UNCHANGED <<migrated, created, patchInFlight>>
    /\ UNCHANGED nonCrudVars


(***************************************************************************)
(* POST /campaigns/batch-budget-usage (src/routes/campaigns.ts, lines     *)
(* 62-135).  After the select, Promise.all starts one task per requested  *)
(* id; a task awaits ensureOrganization, listRuns and, when there are     *)
(* runs, getRunsBatch, and writes its entry into the shared results       *)
(* object.  The calls of different tasks settle in any order.             *)
(***************************************************************************)
MaxBatch == 2

\* campaigns c1 and c2 have rows, c9 has none
BatchCampaignIds == {"c1", "c2", "c9"}
BatchRow(id) ==
    CASE id = "c1" -> [status |-> "ongoing", clerkOrgId |-> "org_a"]
      [] id = "c2" -> [status |-> "stopped", clerkOrgId |-> "org_b"]
      [] OTHER -> NoRow
BatchIdLists == UNION {[1..n -> BatchCampaignIds] : n \in 0..MaxBatch}

\* what listRuns can resolve with: the statuses of the runs
RunLists == {<<>>, <<"completed", "completed", "failed", "running">>}
\* what getRunsBatch can resolve with: totalCostInUsdCents of the runs of the map
CostLists == {<<"150", "50">>, <<"n/a", "0">>}

parseFloat(str) ==
    CASE str = "150" -> 150
      [] str = "50" -> 50
      [] str = "0" -> 0
      [] OTHER -> NaN

\* lines 106-109: totalCostInUsdCents += parseFloat(...) || 0
RECURSIVE SumCosts(_)
SumCosts(costs) ==
    IF costs = <<>> THEN 0
    ELSE (IF parseFloat(Head(costs)) \in {NaN, 0} THEN 0 ELSE parseFloat(Head(costs)))
         + SumCosts(Tail(costs))

CountStatus(runs, status) == Cardinality({k \in 1..Len(runs) : runs[k] = status})

\* the entry of lines 111-122, of the columns the model follows
UsageEntry(row, runs, costs) ==
    [status |-> row.status,
     runs |-> [total |-> Len(runs),
               completed |-> CountStatus(runs, "completed"),
               failed |-> CountStatus(runs, "failed"),
               running |-> CountStatus(runs, "running")],
     totalCostInUsdCents |->
         IF SumCosts(costs) > 0 THEN ToString(SumCosts(costs)) ELSE Null]

NoEntry == <<>>
Outcome(kind, value) == [kind |-> kind, value |-> value]
NotCalled == Outcome("none", <<>>)
RejectedCall == Outcome("rejected", <<>>)
ResolvedCall(value) == Outcome("resolved", value)

\* a task: where it is, and what each of its runs-service calls did
Task(taskPc, org, runs, costs) ==
    [pc |-> taskPc, ensureOrganization |-> org, listRuns |-> runs, getRunsBatch |-> costs]

BatchIdle ==
    /\ batchPc = "idle"
    /\ batchIds = <<>>
    /\ batchTasks = <<>>
    /\ batchResults = [id \in BatchCampaignIds |-> NoEntry]
    /\ batchRes = NoRes

\* BatchBudgetUsageBody (src/schemas.ts 112-114): campaignIds has an element
BatchBudgetUsageBodyIssues(campaignIds) ==
    IF Len(campaignIds) < 1 THEN <<"campaignIds array is required">> ELSE <<>>

\* mutation: the response waits for the first task only (Promise.race)
TasksFinished_Race(tasks) == \E k \in 1..Len(tasks) : tasks[k].pc = "done"

\* await Promise.all(...): lines 84-128
TasksFinished(tasks) == \A k \in 1..Len(tasks) : tasks[k].pc = "done"

\* the request arrives: requireApiKey, validateBody, then the select is awaited
PostBatchBudgetUsage(apiKey, campaignIds) ==
    /\ batchPc = "idle"
    /\ batchIds' = campaignIds
    /\ IF requireApiKey(apiKey, envApiKey) # NoRes
       THEN /\ batchRes' = requireApiKey(apiKey, envApiKey)
            /\ batchPc' = "responded"
       ELSE IF validateBody(BatchBudgetUsageBodyIssues(campaignIds)) # NoRes
       THEN /\ batchRes' = validateBody(BatchBudgetUsageBodyIssues(campaignIds))
            /\ batchPc' = "responded"
       ELSE /\ batchPc' = "select"
            /\ UNCHANGED batchRes
    /\ UNCHANGED <<batchTasks, batchResults>>
    /\ UNCHANGED nonBatchVars

\* the select rejects: the outer catch, lines 131-134
BatchSelectRejects ==
    /\ batchPc = "select"
    /\ batchRes' = Res(500, ErrorBody("Internal server error"))
    /\ batchPc' = "responded"
    /\ UNCHANGED <<batchIds, batchTasks, batchResults>>
    /\ UNCHANGED nonBatchVars

\* the select resolves; campaignIds.map runs every task to its first await:
\* a task without a row writes its entry and ends (lines 86-90), the others
\* have called ensureOrganization (line 93)
BatchSelectResolves ==
    /\ batchPc = "select"
    /\ batchTasks' = [k \in 1..Len(batchIds) |->
          IF BatchRow(batchIds[k]) = NoRow
          THEN Task("done", NotCalled, NotCalled, NotCalled)
          ELSE Task("ensureOrganization", NotCalled, NotCalled, NotCalled)]
    /\ batchResults' = [id \in BatchCampaignIds |->
          IF BatchRow(id) = NoRow /\ \E k \in 1..Len(batchIds) : batchIds[k] = id
          THEN ErrorBody("Campaign not found")
          ELSE NoEntry]
    /\ batchPc' = "tasks"
    /\ UNCHANGED <<batchIds, batchRes>>
    /\ UNCHANGED nonBatchVars

\* the catch of a task: lines 123-126
TaskFails(k, task) ==
    /\ batchTasks' = [batchTasks EXCEPT ![k] = task]
    /\ batchResults' = [batchResults EXCEPT ![batchIds[k]] =
                           ErrorBody("Failed to fetch stats")]

\* the end of a task's try block: lines 106-122
TaskSucceeds(k, task, runs, costs) ==
    /\ batchTasks' = [batchTasks EXCEPT ![k] = task]
    /\ batchResults' = [batchResults EXCEPT ![batchIds[k]] =
                           UsageEntry(BatchRow(batchIds[k]), runs, costs)]

EnsureOrganizationSettles(k, resolved) ==
    /\ batchPc = "tasks"
    /\ k \in 1..Len(batchTasks)
    /\ batchTasks[k].pc = "ensureOrganization"
    /\ IF resolved
       THEN /\ batchTasks' = [batchTasks EXCEPT ![k] =
                   Task("listRuns", ResolvedCall(<<>>), NotCalled, NotCalled)]
            /\ UNCHANGED batchResults
       ELSE TaskFails(k, Task("done", RejectedCall, NotCalled, NotCalled))
    /\ UNCHANGED <<batchPc, batchIds, batchRes>>
    /\ UNCHANGED nonBatchVars

ListRunsRejects(k) ==
    /\ batchPc = "tasks"
    /\ k \in 1..Len(batchTasks)
    /\ batchTasks[k].pc = "listRuns"
    /\ TaskFails(k, [batchTasks[k] EXCEPT !.pc = "done", !.listRuns = RejectedCall])
    /\ UNCHANGED <<batchPc, batchIds, batchRes>>
    /\ UNCHANGED nonBatchVars

\* listRuns resolves: without runs the task ends at once (lines 102-104)
ListRunsResolves(k, runs) ==
    /\ batchPc = "tasks"
    /\ k \in 1..Len(batchTasks)
    /\ batchTasks[k].pc = "listRuns"
    /\ IF Len(runs) > 0
       THEN /\ batchTasks' = [batchTasks EXCEPT ![k] =
                   [@ EXCEPT !.pc = "getRunsBatch", !.listRuns = ResolvedCall(runs)]]
            /\ UNCHANGED batchResults
       ELSE TaskSucceeds(k, [batchTasks[k] EXCEPT !.pc = "done",
                                                  !.listRuns = ResolvedCall(runs)],
                         runs, <<>>)
    /\ UNCHANGED <<batchPc, batchIds, batchRes>>
    /\ UNCHANGED nonBatchVars

\* getRunsBatch rejects: .catch(() => new Map()), line 103
GetRunsBatchRejects(k) ==
    /\ batchPc = "tasks"
    /\ k \in 1..Len(batchTasks)
    /\ batchTasks[k].pc = "getRunsBatch"
    /\ TaskSucceeds(k, [batchTasks[k] EXCEPT !.pc = "done", !.getRunsBatch = RejectedCall],
                    batchTasks[k].listRuns.value, <<>>)
    /\ UNCHANGED <<batchPc, batchIds, batchRes>>
    /\ UNCHANGED nonBatchVars

GetRunsBatchResolves(k, costs) ==
    /\ batchPc = "tasks"
    /\ k \in 1..Len(batchTasks)
    /\ batchTasks[k].pc = "getRunsBatch"
    /\ TaskSucceeds(k, [batchTasks[k] EXCEPT !.pc = "done",
                                             !.getRunsBatch = ResolvedCall(costs)],
                    batchTasks[k].listRuns.value, costs)
    /\ UNCHANGED <<batchPc, batchIds, batchRes>>
    /\ UNCHANGED nonBatchVars

\* the continuation of the Promise.all: line 130
BatchResponds ==
    /\ batchPc = "tasks"
    /\ TasksFinished(batchTasks)
    /\ batchRes' = Res(200, [results |-> batchResults])
    /\ batchPc' = "responded"
    /\ UNCHANGED <<batchIds, batchTasks, batchResults>>
    /\ UNCHANGED nonBatchVars


(***************************************************************************)
(* getLeadsForRuns and fetchData (src/lib/service-client.ts, lines        *)
(* 122-173): a loop over runIds that awaits one fetchData per run before  *)
(* it starts the next.                                                     *)
(***************************************************************************)
MaxLeadRuns == 2

LeadRunIdLists == {SubSeq(RunIdPool, 1, n) : n \in 0..MaxLeadRuns}

\* a lead of an enrichment response, as far as getLeadsForRuns looks at it
Lead(runId, n) == [id |-> n, enrichmentRunId |-> runId]

\* what fetchData returns: null, or the parsed body with or without an
\* enrichments member
DataResult(kind, hasEnrichments, enrichments) ==
    [kind |-> kind, hasEnrichments |-> hasEnrichments, enrichments |-> enrichments]
NullResult == DataResult("null", FALSE, <<>>)
NoEnrichments == DataResult("object", FALSE, <<>>)
WithEnrichments(leads) == DataResult("object", TRUE, leads)
\* a body response.json() rejects on
NotJson == DataResult("unparseable", FALSE, <<>>)

EnrichmentBodies(runId) ==
    {NotJson, NullResult, NoEnrichments, WithEnrichments(<<>>),
     WithEnrichments(<<Lead(runId, 1), Lead(runId, 2)>>)}

EnrichmentRequest(runId, org) ==
    [url |-> "/enrichments/" \o runId, method |-> "GET", clerkOrgId |-> org]

\* fetchData after response.json() settled: lines 139-148
fetchDataParsed(body) == IF body.kind = "unparseable" THEN NullResult ELSE body

\* mutation: the enrichments are put in front of the list (unshift)
PushLeads_Front(leads, result) ==
    IF result.kind = "object" /\ result.hasEnrichments
    THEN result.enrichments \o leads
    ELSE leads

\* lines 167-169: if (result?.enrichments) allLeads.push(...result.enrichments)
PushLeads(leads, result) ==
    IF result.kind = "object" /\ result.hasEnrichments
    THEN leads \o result.enrichments
    ELSE leads

LeadsIdle ==
    /\ leadsPc = "idle"
    /\ leadsRunIds = <<>>
    /\ leadsOrg = NoOrg
    /\ leadsFetchCalls = <<>>
    /\ leadsOutcomes = <<>>
    /\ allLeads = <<>>
    /\ leadsRet = <<>>

\* the call up to its first await: lines 156-162, 123-133
CallGetLeads(ids, org) ==
    /\ leadsPc = "idle"
    /\ leadsRunIds' = ids
    /\ leadsOrg' = org
    /\ IF Len(ids) = 0
       THEN /\ leadsPc' = "done"
            /\ UNCHANGED leadsFetchCalls
       ELSE /\ leadsPc' = "fetching"
            /\ leadsFetchCalls' = <<EnrichmentRequest(ids[1], org)>>
    /\ UNCHANGED <<leadsOutcomes, allLeads, leadsRet>>
    /\ UNCHANGED nonLeadsVars

\* fetchData has returned `result` for the run being fetched: the rest of
\* the loop body, then the next iteration up to its fetch, or the return
LoopContinues(outcome, result) ==
    /\ leadsOutcomes' = Append(leadsOutcomes, outcome)
    /\ allLeads' = PushLeads(allLeads, result)
    /\ IF Len(leadsOutcomes') < Len(leadsRunIds)
       THEN /\ leadsPc' = "fetching"
            /\ leadsFetchCalls' = Append(leadsFetchCalls,
                   EnrichmentRequest(leadsRunIds[Len(leadsOutcomes') + 1], leadsOrg))
            /\ UNCHANGED leadsRet
       ELSE /\ leadsPc' = "done"
            /\ leadsRet' = allLeads'
            /\ UNCHANGED leadsFetchCalls

\* fetch() rejects: the catch of fetchData returns null (lines 140-148)
LeadsFetchRejects(thrown) ==
    /\ leadsPc = "fetching"
    /\ LoopContinues([kind |-> "rejected", status |-> 0, body |-> NullResult], NullResult)
    /\ UNCHANGED <<leadsRunIds, leadsOrg>>
    /\ UNCHANGED nonLeadsVars

\* fetch() resolves: a failure status returns null (lines 134-137)
LeadsFetchResolves(status) ==
    /\ leadsPc = "fetching"
    /\ IF ~ResponseOk(status)
       THEN LoopContinues([kind |-> "response", status |-> status, body |-> NullResult],
                          NullResult)
       ELSE /\ leadsPc' = "parsing"
            /\ UNCHANGED <<leadsFetchCalls, leadsOutcomes, allLeads, leadsRet>>
    /\ UNCHANGED <<leadsRunIds, leadsOrg>>
    /\ UNCHANGED nonLeadsVars

\* response.json() settles
LeadsJsonSettles(body) ==
    /\ leadsPc = "parsing"
    /\ body \in EnrichmentBodies(leadsRunIds[Len(leadsOutcomes) + 1])
    /\ LoopContinues([kind |-> "response", status |-> 200, body |-> body],
                     fetchDataParsed(body))
    /\ UNCHANGED <<leadsRunIds, leadsOrg>>
    /\ UNCHANGED nonLeadsVars


(***************************************************************************)
(* aggregateCompaniesFromLeads (src/lib/service-client.ts, lines          *)
(* 185-223).  companyMap is a Map, which keeps its keys in insertion      *)
(* order: it is a sequence of entries here.                                *)
(***************************************************************************)
MaxLeads == 3

LeadData(name, domain, industry, size, runId) ==
    [organizationName |-> name, organizationDomain |-> domain,
     organizationIndustry |-> industry, organizationSize |-> size,
     enrichmentRunId |-> runId]

\* leads of two companies and of none; the nullable strings are null, empty
\* or a value
LeadPool ==
    { LeadData("Acme", "acme.com", "Tech", "50", "run-1"),
      LeadData("Acme", "acme.io", Null, "", "run-2"),
      LeadData("Acme", "", "Retail", Null, Null),
      LeadData("Globex", Null, "", "10", ""),
      LeadData("Globex", "globex.com", "Finance", "200", "run-1"),
      LeadData(Null, "nobody.com", "Tech", "5", "run-1"),
      LeadData("", "empty.com", "Tech", "5", "run-2") }
LeadLists == UNION {[1..n -> LeadPool] : n \in 0..MaxLeads}

\* the truthiness of a nullable string
Truthy(v) == v \notin {Null, ""}
\* v || null
OrNull(v) == IF Truthy(v) THEN v ELSE Null

\* the position of the entry of orgName in companyMap, 0 if it has none
EntryOf(companyMap, orgName) ==
    IF \E k \in 1..Len(companyMap) : companyMap[k].name = orgName
    THEN CHOOSE k \in 1..Len(companyMap) : companyMap[k].name = orgName
    ELSE 0

\* mutation: a later lead of a company overwrites its domain
AddLead_Overwrites(companyMap, lead) ==
    LET orgName == lead.organizationName
        k == EntryOf(companyMap, orgName)
    IN IF ~Truthy(orgName) THEN companyMap
       ELSE IF k # 0
       THEN [companyMap EXCEPT
                ![k].leadsCount = @ + 1,
                ![k].domain = OrNull(lead.organizationDomain),
                ![k].enrichmentRunIds =
                    IF Truthy(lead.enrichmentRunId) THEN Append(@, lead.enrichmentRunId)
                    ELSE @]
       ELSE Append(companyMap,
                   [name |-> orgName,
                    domain |-> OrNull(lead.organizationDomain),
                    industry |-> OrNull(lead.organizationIndustry),
                    employeeCount |-> OrNull(lead.organizationSize),
                    leadsCount |-> 1,
                    enrichmentRunIds |->
                        IF Truthy(lead.enrichmentRunId) THEN <<lead.enrichmentRunId>>
                        ELSE <<>>])

\* one iteration of the loop: lines 196-217
AddLead(companyMap, lead) ==
    LET orgName == lead.organizationName
        k == EntryOf(companyMap, orgName)
    IN IF ~Truthy(orgName) THEN companyMap
       ELSE IF k # 0
       THEN [companyMap EXCEPT
                ![k].leadsCount = @ + 1,
                ![k].enrichmentRunIds =
                    IF Truthy(lead.enrichmentRunId) THEN Append(@, lead.enrichmentRunId)
                    ELSE @]
       ELSE Append(companyMap,
                   [name |-> orgName,
                    domain |-> OrNull(lead.organizationDomain),
                    industry |-> OrNull(lead.organizationIndustry),
                    employeeCount |-> OrNull(lead.organizationSize),
                    leadsCount |-> 1,
                    enrichmentRunIds |->
                        IF Truthy(lead.enrichmentRunId) THEN <<lead.enrichmentRunId>>
                        ELSE <<>>])

RECURSIVE GroupLeads(_, _)
GroupLeads(leads, companyMap) ==
    IF leads = <<>> THEN companyMap
    ELSE GroupLeads(Tail(leads), AddLead(companyMap, Head(leads)))

\* lines 219-222: the entries in insertion order, each with its id
aggregateCompaniesFromLeads(leads) ==
    LET companyMap == GroupLeads(leads, <<>>)
    IN [index \in 1..Len(companyMap) |->
           [id |-> "company-" \o ToString(index - 1),
            name |-> companyMap[index].name,
            domain |-> companyMap[index].domain,
            industry |-> companyMap[index].industry,
            employeeCount |-> companyMap[index].employeeCount,
            leadsCount |-> companyMap[index].leadsCount,
            enrichmentRunIds |-> companyMap[index].enrichmentRunIds]]

CompaniesIdle ==
    /\ companiesPc = "idle"
    /\ leadsArg = <<>>
    /\ companiesRet = <<>>

CallAggregateCompanies ==
    /\ companiesPc = "idle"
    /\ companiesRet' = aggregateCompaniesFromLeads(leadsArg)
    /\ companiesPc' = "done"
    /\ UNCHANGED leadsArg
    /\ UNCHANGED nonCompaniesVars


(***************************************************************************)
(* Specifications.  Each one starts the part of the program it runs and   *)
(* leaves the other parts idle.                                            *)
(***************************************************************************)
\* the parts added after the routes are idle
LaterIdle == TwoIdle /\ CrudIdle /\ BatchIdle /\ LeadsIdle /\ CompaniesIdle

Init == AggInit /\ RoutesIdle /\ LaterIdle

Next ==
    \/ \E ids \in RunIdLists, org \in Orgs : CallAggregated(ids, org)
    \/ \E s \in Services, thrown \in FetchRejections : FetchRejects(s, thrown)
    \/ \E s \in Services, status \in StatusCodes : FetchResolves(s, status)
    \/ \E s \in Services : \E body \in Bodies(s) : JsonSettles(s, body)
    \/ ReturnAggregated
    \/ \E ids \in RunIdLists : CallByModel(ids)
    \/ \E thrown \in FetchRejections : ByModelFetchRejects(thrown)
    \/ \E status \in StatusCodes : ByModelFetchResolves(status)
    \/ \E body \in Bodies(ByModel) : ByModelJsonSettles(body)

Spec == Init /\ [][Next]_vars

(***************************************************************************)
(* One aggregation with progress.  Whether and when an upstream answers   *)
(* is up to the upstream, so the settling steps carry no fairness; the    *)
(* continuation after `await Promise.all` is a microtask the event loop   *)
(* runs once the join has resolved, so the return step is weakly fair.    *)
(* Each upstream can reject, answer a failure status, or answer 200 with  *)
(* any malformed body or with one payload.                                 *)
(***************************************************************************)
NextLive ==
    \/ \E org \in Orgs : CallAggregated(<<"run-1">>, org)
    \/ \E s \in Services, thrown \in LiveRejections : FetchRejects(s, thrown)
    \/ \E s \in Services, status \in StatusCodes : FetchResolves(s, status)
    \/ \E s \in Services : \E body \in LiveBodies(s) : JsonSettles(s, body)
    \/ ReturnAggregated

SpecLive == Init /\ [][NextLive]_vars /\ WF_vars(ReturnAggregated)

\* the deployments a request can meet: the key configured or not, the org
\* known or not
InitRoutes ==
    /\ AggInit
    /\ LaterIdle
    /\ envApiKey \in {ExpectedKey, Absent}
    /\ routePc = "idle"
    /\ req = NoRequest
    /\ res = NoRes
    /\ filteredStatsCalls = <<>>
    /\ orgsTable \in SUBSET {TestOrg}
    /\ campaignsTable = <<>>

NextRoutes ==
    \/ \E apiKey \in ApiKeyHeaders, body \in FilterBodies : PostStats(apiKey, body)
    \/ \E result \in FilteredStatsResults : FilteredStatsReturns(result)
    \/ FilteredStatsThrows
    \/ \E apiKey \in ApiKeyHeaders, orgHeader \in OrgHeaders, body \in CampaignBodies :
          PostCampaigns(apiKey, orgHeader, body)
    \/ \E dbOk \in BOOLEAN : OrgFindSettles(dbOk)
    \/ \E dbOk \in BOOLEAN : OrgInsertSettles(dbOk)
    \/ \E dbOk \in BOOLEAN : CampaignInsertSettles(dbOk)

SpecRoutes == InitRoutes /\ [][NextRoutes]_vars

InitTwo == AggInit /\ RoutesIdle /\ TwoIdle /\ CrudIdle /\ BatchIdle /\ LeadsIdle /\ CompaniesIdle

NextTwo ==
    \/ \E c \in CallIds : \E ids \in TwoRunIds(c) : TwoCall(c, ids, "org-1")
    \/ \E c \in CallIds, s \in Services : \E thrown \in TwoRejections(s) :
          TwoFetchRejects(c, s, thrown)
    \/ \E c \in CallIds, s \in Services : \E status \in TwoStatuses(s) :
          TwoFetchResolves(c, s, status)
    \/ \E c \in CallIds, s \in Services : \E body \in TwoBodies(s) :
          TwoJsonSettles(c, s, body)
    \/ \E c \in CallIds : TwoReturn(c)

SpecTwo == InitTwo /\ [][NextTwo]_vars

\* campaign 1 of org_a and campaign 2 of org_b are in the table, written
\* by earlier versions of the service
InitCrud ==
    /\ AggInit /\ RoutesIdle /\ TwoIdle /\ BatchIdle /\ LeadsIdle /\ CompaniesIdle
    /\ migrated = FALSE
    /\ \E s1 \in LegacyStatuses, s2 \in {"ongoing"} :
          campaignRows = [id \in CampaignIds |->
              CASE id = 1 -> Row(OrgRowId("org_a"), s1)
                [] id = 2 -> Row(OrgRowId("org_b"), s2)
                [] OTHER -> NoRow]
    /\ created = 0
    /\ patchInFlight = [h \in PatchHandlers |-> NoPatch]
    /\ lastRes = NoCrudRes

NextCrud ==
    \/ RunMigration0009
    \/ \E orgHeader \in CrudOrgHeaders : CreateCampaign(orgHeader)
    \/ \E orgHeader \in CrudOrgHeaders, id \in CampaignIds : GetCampaign(orgHeader, id)
    \/ \E h \in PatchHandlers, orgHeader \in CrudOrgHeaders, id \in CampaignIds :
          \E body \in PatchBodies : PatchCampaign(h, orgHeader, id, body)
    \/ \E h \in PatchHandlers : PatchUpdateSettles(h)
    \/ \E orgHeader \in CrudOrgHeaders, id \in CampaignIds : DeleteCampaign(orgHeader, id)

SpecCrud == InitCrud /\ [][NextCrud]_vars

InitBatch == AggInit /\ RoutesIdle /\ TwoIdle /\ CrudIdle /\ BatchIdle /\ LeadsIdle /\ CompaniesIdle

NextBatch ==
    \/ \E apiKey \in {ExpectedKey, "wrong-key"}, campaignIds \in BatchIdLists :
          PostBatchBudgetUsage(apiKey, campaignIds)
    \/ BatchSelectRejects
    \/ BatchSelectResolves
    \/ \E k \in 1..MaxBatch, resolved \in BOOLEAN : EnsureOrganizationSettles(k, resolved)
    \/ \E k \in 1..MaxBatch : ListRunsRejects(k)
    \/ \E k \in 1..MaxBatch, runs \in RunLists : ListRunsResolves(k, runs)
    \/ \E k \in 1..MaxBatch : GetRunsBatchRejects(k)
    \/ \E k \in 1..MaxBatch, costs \in CostLists : GetRunsBatchResolves(k, costs)
    \/ BatchResponds

SpecBatch == InitBatch /\ [][NextBatch]_vars

InitLeads == AggInit /\ RoutesIdle /\ TwoIdle /\ CrudIdle /\ BatchIdle /\ LeadsIdle /\ CompaniesIdle

NextLeads ==
    \/ \E ids \in LeadRunIdLists, org \in Orgs : CallGetLeads(ids, org)
    \/ \E thrown \in LiveRejections : LeadsFetchRejects(thrown)
    \/ \E status \in {200, 500} : LeadsFetchResolves(status)
    \/ \E k \in 1..MaxLeadRuns : \E body \in EnrichmentBodies(RunIdPool[k]) :
          LeadsJsonSettles(body)

SpecLeads == InitLeads /\ [][NextLeads]_vars

InitCompanies ==
    /\ AggInit /\ RoutesIdle /\ TwoIdle /\ CrudIdle /\ BatchIdle /\ LeadsIdle
    /\ companiesPc = "idle"
    /\ leadsArg \in LeadLists
    /\ companiesRet = <<>>

NextCompanies == CallAggregateCompanies

SpecCompanies == InitCompanies /\ [][NextCompanies]_vars


(***************************************************************************)
(* Vocabulary of the properties, read off the upstreams' raw answers and  *)
(* not off the intermediate results of the code.                           *)
(***************************************************************************)
AggregatedDone == pc = "done" /\ fn = "getAggregatedStats"
\* a finished aggregation that queried the upstreams
FannedOut == AggregatedDone /\ runIds # <<>>
ByModelDone == pc = "done" /\ fn = "getStatsByModel"

\* the upstream answered with a success status and a body carrying stats
UpstreamSucceeded(e) ==
    /\ response[e].kind = "response"
    /\ response[e].status \in 200..299
    /\ response[e].body.kind = "object"
    /\ response[e].body.statsTag = "value"
UpstreamFailed(e) == ~UpstreamSucceeded(e)
FailedUpstreams == {s \in Services : UpstreamFailed(s)}

\* a 200 response whose body is {} or {stats: null}
MalformedSuccess(e) ==
    /\ response[e].kind = "response"
    /\ response[e].status = 200
    /\ response[e].body \in {EmptyObject, StatsNull}

SentPayload(e) == response[e].body.stats
\* the value counter f of upstream s adds to the result: what it reported
\* when it succeeded, nothing when it failed
Contribution(s, f) == IF UpstreamSucceeded(s) THEN SentPayload(s)[f] ELSE 0

\* the entries of ret.errors that name service s
ErrorsOf(s) == {k \in 1..Len(ret.errors) : ret.errors[k].service = s}
ErrorNames == {ret.errors[k].service : k \in 1..Len(ret.errors)}

\* every field equals what the upstreams feeding it contributed, for the
\* counters the successful payloads carry
FieldsMerged ==
    /\ IsNumber(Contribution("apollo", "leadsFound"))
          => ret.stats.leadsFound = Contribution("apollo", "leadsFound")
    /\ IsNumber(Contribution("emailgen", "emailsGenerated"))
          => ret.stats.emailsGenerated = Contribution("emailgen", "emailsGenerated")
    /\ \A f \in SendingFieldSet :
          (IsNumber(Contribution("postmark", f)) /\ IsNumber(Contribution("instantly", f)))
          => ret.stats[f] = Contribution("postmark", f) + Contribution("instantly", f)

AllZero == \A f \in AggregatedFieldSet : ret.stats[f] = 0

(***************************************************************************)
(* C1: a getAggregatedStats call with an empty runIds list, whatever the  *)
(* org context, returns at once with the twelve stats fields zero and no  *)
(* errors, and at no point of the call is a request handed to fetch().    *)
(***************************************************************************)
C1_EmptyRunIdsShortCircuit ==
    (fn = "getAggregatedStats" /\ runIds = <<>>)
    => /\ pc = "done"
       /\ DOMAIN ret.stats = AggregatedFieldSet
       /\ AllZero
       /\ ret.errors = <<>>
       /\ fetchCalls = <<>>
       /\ \A e \in Endpoints : fetchPc[e] = "idle"

C1_Witness ==
    /\ AggregatedDone
    /\ runIds = <<>>
    /\ clerkOrgId = "org-2"
    /\ ret.stats.emailsSent = 0

(***************************************************************************)
(* C2: when a fanned-out aggregation has returned, errors is empty        *)
(* exactly when every one of the four upstreams succeeded, and stats is a *)
(* record of all twelve fields, also when every upstream failed.          *)
(***************************************************************************)
C2_ErrorsEmptyIffAllSucceeded ==
    FannedOut
    => /\ (ret.errors = <<>>) <=> (\A s \in Services : UpstreamSucceeded(s))
       /\ DOMAIN ret.stats = AggregatedFieldSet

C2_Witness ==
    /\ FannedOut
    /\ FailedUpstreams = {"instantly"}
    /\ ret.errors # <<>>
    /\ DOMAIN ret.stats = AggregatedFieldSet

(***************************************************************************)
(* C3: when all four upstreams succeed, errors is empty, leadsFound is    *)
(* apollo's value, emailsGenerated is emailgen's value and each of the    *)
(* ten delivery counters is postmark's value plus instantly's value, for  *)
(* the counters the payloads carry.                                        *)
(***************************************************************************)
C3_AllSucceedMerged ==
    (FannedOut /\ FailedUpstreams = {})
    => /\ ret.errors = <<>>
       /\ IsNumber(SentPayload("apollo").leadsFound)
             => ret.stats.leadsFound = SentPayload("apollo").leadsFound
       /\ IsNumber(SentPayload("emailgen").emailsGenerated)
             => ret.stats.emailsGenerated = SentPayload("emailgen").emailsGenerated
       /\ \A f \in SendingFieldSet :
             (IsNumber(SentPayload("postmark")[f]) /\ IsNumber(SentPayload("instantly")[f]))
             => ret.stats[f] = SentPayload("postmark")[f] + SentPayload("instantly")[f]

C3_Witness ==
    /\ FannedOut
    /\ FailedUpstreams = {}
    /\ SentPayload("postmark") = Ramp(1)
    /\ SentPayload("instantly") = Ramp(2)
    /\ ret.stats.leadsFound = 2
    /\ ret.stats.emailsGenerated = 1
    /\ ret.stats.emailsOpened = 6
    /\ ret.stats.repliesUnsubscribe = 30

(***************************************************************************)
(* C4: when exactly one upstream fails, whatever the kind of failure,     *)
(* errors has one entry and it names that upstream; a field the failed    *)
(* upstream does not feed has the value the other upstreams give it, and  *)
(* a field it feeds counts zero for it (a delivery counter is then the    *)
(* other delivery provider's value).                                       *)
(***************************************************************************)
C4_OneFailureLeavesOthers ==
    \A failed \in Services :
        (FannedOut /\ FailedUpstreams = {failed})
        => /\ Len(ret.errors) = 1
           /\ ret.errors[1].service = failed
           /\ FieldsMerged
           /\ failed = "apollo" => ret.stats.leadsFound = 0
           /\ failed = "emailgen" => ret.stats.emailsGenerated = 0
           /\ \A f \in SendingFieldSet :
                 /\ (failed = "postmark" /\ IsNumber(SentPayload("instantly")[f]))
                       => ret.stats[f] = SentPayload("instantly")[f]
                 /\ (failed = "instantly" /\ IsNumber(SentPayload("postmark")[f]))
                       => ret.stats[f] = SentPayload("postmark")[f]

C4_Witness ==
    /\ FannedOut
    /\ FailedUpstreams = {"postmark"}
    /\ response["postmark"].status = 500
    /\ SentPayload("instantly") = Ramp(2)
    /\ ret.stats.emailsSent = 2
    /\ ret.stats.leadsFound = 2
    /\ ret.stats.emailsGenerated = 2
    /\ Len(ret.errors) = 1

(***************************************************************************)
(* C5: when all four upstreams fail the call still returns: as soon as    *)
(* the four have settled the return step can be taken, and the result has *)
(* four errors naming the four upstreams and all-zero stats.               *)
(***************************************************************************)
C5_AllFail ==
    /\ (pc = "await" /\ fn = "getAggregatedStats"
          /\ \A s \in Services : fetchPc[s] = "settled")
       => ENABLED ReturnAggregated
    /\ (FannedOut /\ FailedUpstreams = Services)
       => /\ Len(ret.errors) = 4
          /\ ErrorNames = {"apollo", "emailgen", "postmark", "instantly"}
          /\ DOMAIN ret.stats = AggregatedFieldSet
          /\ AllZero

C5_Witness ==
    /\ FannedOut
    /\ \A s \in Services : response[s].kind = "response" /\ response[s].status = 503
    /\ Len(ret.errors) = 4
    /\ AllZero


(***************************************************************************)
(* C6: the merge of the two delivery providers is additive, symmetric and *)
(* tolerant of either one's absence: a delivery counter is p when only    *)
(* postmark succeeded, i when only instantly succeeded, p + i when both   *)
(* succeeded and 0 when both failed, p and i being the values reported;   *)
(* so merge(p ok, i failed) + merge(p failed, i ok) = merge(p ok, i ok).  *)
(***************************************************************************)
C6_AdditiveMerge ==
    FannedOut
    => \A f \in SendingFieldSet :
          LET pOk == UpstreamSucceeded("postmark")
              iOk == UpstreamSucceeded("instantly")
              p == IF pOk THEN SentPayload("postmark")[f] ELSE 0
              i == IF iOk THEN SentPayload("instantly")[f] ELSE 0
              failedP == Failure("postmark", "HTTP 500")
              failedI == Failure("instantly", "HTTP 500")
          IN (IsNumber(p) /\ IsNumber(i))
             => /\ (pOk /\ ~iOk) => ret.stats[f] = p
                /\ (~pOk /\ iOk) => ret.stats[f] = i
                /\ (pOk /\ iOk) => ret.stats[f] = p + i
                /\ (~pOk /\ ~iOk) => ret.stats[f] = 0
                /\ (pOk /\ iOk)
                   => /\ MergeSending(Ok(SentPayload("postmark")), failedI)[f]
                           + MergeSending(failedP, Ok(SentPayload("instantly")))[f]
                         = MergeSending(Ok(SentPayload("postmark")),
                                        Ok(SentPayload("instantly")))[f]
                      /\ MergeSending(Ok(SentPayload("instantly")),
                                      Ok(SentPayload("postmark")))[f]
                         = ret.stats[f]

C6_Witness ==
    /\ FannedOut
    /\ UpstreamSucceeded("postmark")
    /\ UpstreamFailed("instantly")
    /\ SentPayload("postmark") = Ramp(2)
    /\ ret.stats.emailsSent = 2
    /\ ret.stats.emailsBounced = 10

(***************************************************************************)
(* C7: in getAggregatedStats a 200 response whose body is {stats: null}   *)
(* or {} is a failure of that upstream, not a zero-valued success: errors *)
(* gets exactly one entry for it, it contributes zero to the stats, and   *)
(* what the successful upstreams reported stays in the result.             *)
(***************************************************************************)
C7_MissingStatsIsFailure ==
    \A s \in Services :
        (FannedOut /\ MalformedSuccess(s))
        => /\ UpstreamFailed(s)
           /\ Cardinality(ErrorsOf(s)) = 1
           /\ \A k \in ErrorsOf(s) : ret.errors[k].error = "no stats in response"
           /\ Len(ret.errors) = Cardinality(FailedUpstreams)
           /\ FieldsMerged

C7_Witness ==
    /\ FannedOut
    /\ response["emailgen"].status = 200
    /\ response["emailgen"].body = EmptyObject
    /\ response["postmark"].status = 200
    /\ response["postmark"].body = StatsNull
    /\ FailedUpstreams = {"emailgen", "postmark"}
    /\ SentPayload("instantly") = Ramp(1)
    /\ Len(ret.errors) = 2
    /\ ret.stats.emailsGenerated = 0
    /\ ret.stats.leadsFound = 1
    /\ ret.stats.emailsSent = 1
    /\ ret.stats.emailsClicked = 3

(***************************************************************************)
(* C8: a fetch() that rejects yields exactly one StatsError for that      *)
(* upstream, and what the other upstreams reported is still merged.  Its  *)
(* reason is "connection refused" when the thrown Error's cause has code  *)
(* ECONNREFUSED; otherwise it is the thrown Error's message, or "unknown  *)
(* error" when the thrown value is not an Error.  A refused connection    *)
(* and another Error get different reasons unless the other Error's own   *)
(* message is the text "connection refused".                               *)
(***************************************************************************)
TransportFailure(e) == response[e].kind = "rejected"
Refused(thrown) == thrown.isError /\ thrown.causeCode = "ECONNREFUSED"

C8_TransportReason ==
    \A s \in Services :
        (FannedOut /\ TransportFailure(s))
        => LET thrown == response[s].thrown
           IN /\ Cardinality(ErrorsOf(s)) = 1
              /\ \A k \in ErrorsOf(s) :
                    /\ Refused(thrown) => ret.errors[k].error = "connection refused"
                    /\ (thrown.isError /\ ~Refused(thrown))
                          => ret.errors[k].error = thrown.message
                    /\ ~thrown.isError => ret.errors[k].error = "unknown error"
                    /\ (thrown.isError /\ ~Refused(thrown)
                          /\ thrown.message # "connection refused")
                          => ret.errors[k].error # "connection refused"
              /\ FieldsMerged

C8_Witness ==
    /\ FannedOut
    /\ response["apollo"].thrown = Err("fetch failed", "ECONNREFUSED")
    /\ response["emailgen"].thrown = Err("fetch failed", "none")
    /\ FailedUpstreams = {"apollo", "emailgen"}
    /\ ret.errors = <<StatsError("apollo", "connection refused"),
                      StatsError("emailgen", "fetch failed")>>
    /\ SentPayload("postmark") = Ramp(1)
    /\ SentPayload("instantly") = Ramp(1)
    /\ ret.stats.emailsSent = 2

\* C8 as the specification states it: the reason is "connection refused"
\* for cause code ECONNREFUSED and the underlying message otherwise, and
\* the two kinds never get the same reason.
C8_AsStated ==
    \A s \in Services :
        (FannedOut /\ TransportFailure(s))
        => LET thrown == response[s].thrown
           IN /\ Cardinality(ErrorsOf(s)) = 1
              /\ \A k \in ErrorsOf(s) :
                    /\ thrown.causeCode = "ECONNREFUSED"
                          => ret.errors[k].error = "connection refused"
                    /\ thrown.causeCode # "ECONNREFUSED"
                          => /\ ret.errors[k].error = thrown.message
                             /\ ret.errors[k].error # "connection refused"

(***************************************************************************)
(* C9: getStatsByModel with an empty runIds list makes no request and     *)
(* returns empty stats and empty errors; with a non-empty list it makes   *)
(* one request, to emailgen's by-model endpoint, returns the stats the    *)
(* provider sent with empty errors on success, and on an HTTP failure     *)
(* returns empty stats with exactly one StatsError, naming "emailgen".    *)
(***************************************************************************)
C9_StatsByModel ==
    /\ (fn = "getStatsByModel" /\ runIds = <<>>)
       => /\ pc = "done"
          /\ ret = [stats |-> <<>>, errors |-> <<>>]
          /\ fetchCalls = <<>>
    /\ (fn = "getStatsByModel" /\ runIds # <<>>)
       => /\ Len(fetchCalls) = 1
          /\ fetchCalls[1].url = ByModel
          /\ fetchCalls[1].body.runIds = runIds
    /\ (ByModelDone /\ runIds # <<>> /\ UpstreamSucceeded(ByModel))
       => /\ ret.stats = SentPayload(ByModel)
          /\ ret.errors = <<>>
    /\ (ByModelDone /\ runIds # <<>> /\ response[ByModel].kind = "response"
          /\ response[ByModel].status \notin 200..299)
       => /\ ret.stats = <<>>
          /\ Len(ret.errors) = 1
          /\ ret.errors[1].service = "emailgen"

C9_Witness ==
    /\ ByModelDone
    /\ runIds # <<>>
    /\ response[ByModel].status = 500
    /\ ret = [stats |-> <<>>, errors |-> <<StatsError("emailgen", "HTTP 500")>>]

(***************************************************************************)
(* C10: errors holds exactly one entry for each failed upstream and none  *)
(* for a successful one, and the entries stand in the dispatch order      *)
(* apollo, emailgen, postmark, instantly, whatever order the four calls   *)
(* settled in.                                                             *)
(***************************************************************************)
C10_ErrorsInDispatchOrder ==
    FannedOut
    => /\ \A s \in Services :
             Cardinality(ErrorsOf(s)) = IF UpstreamFailed(s) THEN 1 ELSE 0
       /\ Len(ret.errors) = Cardinality(FailedUpstreams)
       /\ \A k, l \in 1..Len(ret.errors) :
             k < l => DispatchIndex(ret.errors[k].service)
                        < DispatchIndex(ret.errors[l].service)

\* the four calls failed and did not settle in dispatch order
C10_Witness ==
    /\ FannedOut
    /\ outOfOrder
    /\ FailedUpstreams = Services
    /\ [k \in 1..4 |-> ret.errors[k].service] = Upstreams

(***************************************************************************)
(* C11: a fanned-out aggregation waits for all four calls.  While any of  *)
(* the four is unsettled the call is still awaiting and has produced no   *)
(* result, also when another call has already failed; a call in flight    *)
(* can still settle then (nothing is cancelled); a settled outcome is     *)
(* kept as it is until the return; a call that settles changes no other   *)
(* call; and the result, produced only once the four have settled, merges *)
(* every outcome, the ones that arrived after a failure included.         *)
(***************************************************************************)
Unsettled == {s \in Services : fetchPc[s] # "settled"}

C11_WaitsForAll ==
    /\ [](/\ (fn = "getAggregatedStats" /\ runIds # <<>> /\ Unsettled # {})
              => (pc = "await" /\ ret = NoReturn)
          /\ \A s \in Services :
                (fn = "getAggregatedStats" /\ fetchPc[s] = "fetching")
                => ENABLED FetchResolves(s, 200)
          /\ FannedOut => (FieldsMerged
                           /\ Len(ret.errors) = Cardinality(FailedUpstreams)))
    /\ [][/\ (pc = "await" /\ pc' = "done" /\ fn = "getAggregatedStats")
              => Unsettled = {}
          /\ \A s \in Services :
                /\ fetchPc[s] = "settled"
                   => (fetchPc'[s] = "settled" /\ results'[s] = results[s]
                         /\ response'[s] = response[s])
                /\ fetchPc'[s] # fetchPc[s] /\ pc = "await"
                   => /\ pc' = "await"
                      /\ \A t \in Services \ {s} :
                            fetchPc'[t] = fetchPc[t] /\ results'[t] = results[t]]_vars

\* apollo has failed while the three other calls are still in flight
C11_Witness ==
    /\ pc = "await"
    /\ fn = "getAggregatedStats"
    /\ results["apollo"] = Failure("apollo", "HTTP 500")
    /\ Unsettled = {"emailgen", "postmark", "instantly"}
    /\ \A s \in Unsettled : fetchPc[s] = "fetching"
    /\ ret = NoReturn

(***************************************************************************)
(* C12: fetchStats never raises: whatever the upstream does, the call     *)
(* settles with exactly one outcome, a success carrying the payload or a  *)
(* failure carrying the service name and a reason.  A non-success status, *)
(* a rejected fetch(), a 2xx body that is not JSON and a 2xx body without *)
(* stats give the failure; a 2xx body with stats gives the success.  The  *)
(* outcome is set once, by the step that settles the call.                *)
(***************************************************************************)
IsSuccessOutcome(r) == r.ok /\ r.service = "" /\ r.error = ""
IsFailureOutcome(r, s) == ~r.ok /\ r.service = s /\ r.data = <<>>

C12_FetchStatsTotal ==
    /\ [](\A s \in Services :
            LET r == results[s]
                a == response[s]
            IN /\ fetchPc[s] # "settled" => r = Pending
               /\ fetchPc[s] = "settled"
                  => /\ IsSuccessOutcome(r) # IsFailureOutcome(r, s)
                     /\ a.kind \in {"rejected", "response"}
                     /\ a.kind = "rejected" => IsFailureOutcome(r, s)
                     /\ (a.kind = "response" /\ a.status \notin 200..299)
                           => IsFailureOutcome(r, s)
                     /\ (a.kind = "response" /\ a.status \in 200..299)
                           => /\ a.body.kind \in {"unparseable", "null"}
                                    => IsFailureOutcome(r, s)
                              /\ (a.body.kind = "object" /\ a.body.statsTag # "value")
                                    => IsFailureOutcome(r, s)
                              /\ (a.body.kind = "object" /\ a.body.statsTag = "value")
                                    => r = Ok(a.body.stats))
    /\ [][\A s \in Services :
              results'[s] # results[s]
              => (results[s] = Pending /\ fetchPc[s] # "settled"
                    /\ fetchPc'[s] = "settled")]_vars

\* one call of each kind has settled: a payload, a rejected fetch(), a body
\* that is not JSON, a body without stats
C12_Witness ==
    /\ fn = "getAggregatedStats"
    /\ results["apollo"] = Ok([leadsFound |-> 2, searchesCount |-> 2,
                               totalPeopleFromSearches |-> 50])
    /\ response["emailgen"].kind = "rejected"
    /\ results["emailgen"] = Failure("emailgen", "unknown error")
    /\ response["postmark"].body = UnparseableBody
    /\ results["postmark"] = Failure("postmark", SyntaxError.message)
    /\ response["instantly"].body = EmptyObject
    /\ results["instantly"] = Failure("instantly", "no stats in response")

(***************************************************************************)
(* C13: an aggregation with a non-empty runIds list makes exactly four    *)
(* upstream requests, one to each of apollo, emailgen, postmark and       *)
(* instantly, each carrying the runIds and the org of the call; the count *)
(* stays four from the dispatch to the return, whatever fails (no retry). *)
(***************************************************************************)
RequestsTo(s) == {k \in 1..Len(fetchCalls) : fetchCalls[k].url = s}

C13_FourRequestsNoRetry ==
    (fn = "getAggregatedStats" /\ runIds # <<>>)
    => /\ Len(fetchCalls) = 4
       /\ \A s \in {"apollo", "emailgen", "postmark", "instantly"} :
             Cardinality(RequestsTo(s)) = 1
       /\ \A k \in 1..Len(fetchCalls) :
             /\ fetchCalls[k].method = "POST"
             /\ fetchCalls[k].body.runIds = runIds
             /\ fetchCalls[k].clerkOrgId = clerkOrgId

\* every upstream failed, two of them at the transport level, and nothing
\* was requested again
C13_Witness ==
    /\ FannedOut
    /\ FailedUpstreams = Services
    /\ response["apollo"].kind = "rejected"
    /\ response["instantly"].kind = "rejected"
    /\ response["postmark"].status = 503
    /\ Len(fetchCalls) = 4
    /\ [k \in 1..4 |-> fetchCalls[k].url] = Upstreams

(***************************************************************************)
(* C14: a counter missing from a successful payload counts as zero for    *)
(* that field only: no StatsError is recorded for the upstream, leadsFound *)
(* and emailsGenerated are the reported value or zero, and each of the    *)
(* ten delivery counters is the sum of the values present, a missing one  *)
(* reading as zero.                                                        *)
(***************************************************************************)
ZeroIfMissing(v) == IF v = undefined THEN 0 ELSE v

C14_MissingCounterIsZero ==
    FannedOut
    => /\ \A s \in Services : UpstreamSucceeded(s) => ErrorsOf(s) = {}
       /\ ret.stats.leadsFound = ZeroIfMissing(Contribution("apollo", "leadsFound"))
       /\ ret.stats.emailsGenerated
             = ZeroIfMissing(Contribution("emailgen", "emailsGenerated"))
       /\ \A f \in SendingFieldSet :
             ret.stats[f] = ZeroIfMissing(Contribution("postmark", f))
                              + ZeroIfMissing(Contribution("instantly", f))

(***************************************************************************)
(* C15: a response with a non-success status s makes the call a failure   *)
(* carrying the service name and the reason "HTTP s" (HTTP 500 for 500,   *)
(* HTTP 503 for 503), whatever the body: the body is not read, and once   *)
(* the aggregation has returned errors holds exactly that entry for the   *)
(* upstream.                                                               *)
(***************************************************************************)
NonSuccessStatus(e) ==
    response[e].kind = "response" /\ response[e].status \notin 200..299

C15_HttpFailure ==
    \A s \in Services :
        (fetchPc[s] = "settled" /\ NonSuccessStatus(s))
        => /\ ~results[s].ok
           /\ results[s].service = s
           /\ results[s].error = "HTTP " \o ToString(response[s].status)
           /\ response[s].status = 500 => results[s].error = "HTTP 500"
           /\ response[s].status = 503 => results[s].error = "HTTP 503"
           /\ response[s].body = NoBody
           /\ ~ENABLED (\E body \in Bodies(s) : JsonSettles(s, body))
           /\ FannedOut
              => \E k \in 1..Len(ret.errors) :
                    /\ ErrorsOf(s) = {k}
                    /\ ret.errors[k] = StatsError(s, results[s].error)

C15_Witness ==
    /\ FannedOut
    /\ response["postmark"].kind = "response"
    /\ response["postmark"].status = 500
    /\ response["apollo"].kind = "response"
    /\ response["apollo"].status = 503
    /\ FailedUpstreams = {"apollo", "postmark"}
    /\ ret.errors = <<StatsError("apollo", "HTTP 503"), StatsError("postmark", "HTTP 500")>>

(***************************************************************************)
(* C16: a response with a success status whose body is a JSON object with *)
(* stats absent or null is a failure with the reason "no stats in         *)
(* response", and one whose body carries stats is a success whose payload *)
(* is that stats value, unchanged.  A body that is the JSON value null is *)
(* a failure too, but its reason is the message of the TypeError raised   *)
(* by reading stats of null.                                               *)
(***************************************************************************)
ParsedSuccess(e) ==
    /\ fetchPc[e] = "settled"
    /\ response[e].kind = "response"
    /\ response[e].status \in 200..299
    /\ response[e].body.kind \in {"null", "object"}

C16_StatsPresence ==
    \A s \in Services :
        ParsedSuccess(s)
        => LET body == response[s].body
           IN /\ (body.kind = "object" /\ body.statsTag \in {"undefined", "null"})
                    => results[s] = Failure(s, "no stats in response")
              /\ body.kind = "null"
                    => /\ results[s] = Failure(s, TypeErrorNull.message)
                       /\ results[s].error # "no stats in response"
              /\ (body.kind = "object" /\ body.statsTag = "value")
                    => /\ results[s].ok
                       /\ results[s].data = body.stats

\* the four kinds of parsed body, one per upstream
C16_Witness ==
    /\ fn = "getAggregatedStats"
    /\ \A s \in Services : ParsedSuccess(s)
    /\ response["apollo"].body = NullBody
    /\ response["emailgen"].body = StatsNull
    /\ response["postmark"].body = EmptyObject
    /\ response["instantly"].body = WithStats(Without(Ramp(1), "emailsSent"))
    /\ results["instantly"] = Ok(Without(Ramp(1), "emailsSent"))

\* C16 as the specification states it: every parsed body of a successful
\* response whose stats is absent or null gives "no stats in response"
C16_AsStated ==
    \A s \in Services :
        ParsedSuccess(s)
        => LET body == response[s].body
           IN IF body.kind = "object" /\ body.statsTag = "value"
              THEN results[s].ok /\ results[s].data = body.stats
              ELSE results[s] = Failure(s, "no stats in response")

(***************************************************************************)
(* C17: for every upstream request, the one of getStatsByModel included,  *)
(* a 200 response whose body is {} or {stats: null} is a failure reported *)
(* with a StatsError naming the upstream, not an empty success.           *)
(***************************************************************************)
C17_MissingStatsFailsEverywhere ==
    /\ \A s \in Services :
          (FannedOut /\ MalformedSuccess(s)) => Cardinality(ErrorsOf(s)) = 1
    /\ (ByModelDone /\ MalformedSuccess(ByModel))
          => /\ Len(ret.errors) = 1
             /\ ret.errors[1].service = ByModelService

StatsRequest == req.route = "POST /stats"
NoneNonEmpty == \A f \in FilterFields : req.sent[f] \in {Absent, ""}
KeyAccepted == envApiKey = ExpectedKey /\ req.apiKey = ExpectedKey

C19_NoFilterRejected ==
    /\ (StatsRequest /\ NoneNonEmpty)
       => /\ routePc = "responded"
          /\ filteredStatsCalls = <<>>
          /\ fetchCalls = <<>>
          /\ res.status \in {400, 401, 500}
          /\ KeyAccepted
             => res = Res(400, ErrorBody(
                    "At least one filter required: clerkOrgId, appId, brandId, or campaignId"))
          /\ ~KeyAccepted => res.status \in {401, 500}
    /\ (StatsRequest /\ filteredStatsCalls # <<>>)
       => /\ filteredStatsCalls = <<req.sent>>
          /\ \E f \in FilterFields : req.sent[f] \notin {Absent, ""}

\* two filters sent as empty strings, two not sent
C19_Witness ==
    /\ StatsRequest
    /\ KeyAccepted
    /\ req.sent = [clerkOrgId |-> "", appId |-> Absent, brandId |-> "",
                   campaignId |-> Absent]
    /\ routePc = "responded"
    /\ res.status = 400
    /\ filteredStatsCalls = <<>>

(***************************************************************************)
(* C20: POST /campaigns, sent with the API key and the org header and met *)
(* by a working database, responds 201 with the created campaign when the *)
(* body carries name, clerkOrgId, brandUrl, brandId and appId, and        *)
(* responds 400 with an error, creating no campaign, when brandId, appId  *)
(* or clerkOrgId is missing from the body or brandId is not a UUID.       *)
(***************************************************************************)
CampaignsRequestServed ==
    /\ req.route = "POST /campaigns"
    /\ routePc = "responded"
    /\ KeyAccepted
    /\ req.clerkOrgIdHeader = TestOrg
    /\ res.status \notin {401, 500}

C20_CreateValidatesIds ==
    CampaignsRequestServed
    => LET b == req.sent
       IN /\ (b.name = "Test Campaign" /\ b.brandUrl # Absent
                 /\ b.brandId = TestBrandId /\ b.appId # Absent
                 /\ b.clerkOrgId # Absent)
             => /\ res.status = 201
                /\ campaignsTable = <<res.body.campaign>>
          /\ (b.brandId \in {Absent, "not-a-uuid"} \/ b.appId = Absent
                 \/ b.clerkOrgId = Absent)
             => /\ res.status = 400
                /\ DOMAIN res.body = {"error"}
                /\ campaignsTable = <<>>

(***************************************************************************)
(* C21: a dispatched aggregation runs to completion: once each of the     *)
(* four upstream calls has settled, with a success or with any failure    *)
(* and in any order, getAggregatedStats eventually returns its result,    *)
(* and the return stays (the call never goes back to waiting).            *)
(***************************************************************************)
AllSettledAwaiting ==
    pc = "await" /\ fn = "getAggregatedStats" /\ \A s \in Services : fetchPc[s] = "settled"

C22_ConcurrentDispatch ==
    /\ []((fn = "getAggregatedStats" /\ runIds # <<>>)
          => /\ [k \in 1..Len(fetchCalls) |-> fetchCalls[k].url]
                   = <<"apollo", "emailgen", "postmark", "instantly">>
             /\ \A k \in 1..Len(fetchCalls) :
                   /\ fetchCalls[k].body = [runIds |-> runIds]
                   /\ fetchCalls[k].clerkOrgId = clerkOrgId)
    /\ [](\A s \in Services : response[s].kind # "none" => Len(fetchCalls) = 4)
    /\ [][(pc = "idle" /\ pc' = "await" /\ fn' = "getAggregatedStats")
            => /\ fetchCalls = <<>>
               /\ Len(fetchCalls') = 4
               /\ \A s \in Services :
                     /\ fetchPc'[s] = "fetching"
                     /\ response'[s] = NoResponse
                     /\ results'[s] = Pending]_vars

\* the four requests are in flight together
C22_Witness ==
    /\ pc = "await"
    /\ fn = "getAggregatedStats"
    /\ clerkOrgId = "org-2"
    /\ \A s \in Services : fetchPc[s] = "fetching"
    /\ Len(fetchCalls) = 4
    /\ fetchCalls[4] = Request("instantly", "org-2", <<"run-1">>)

(***************************************************************************)
(* Vocabulary for two concurrent calls: what a call's own four raw        *)
(* responses determine.                                                    *)
(***************************************************************************)
TwoDone(c) == twoCalls[c].pc = "done" /\ twoCalls[c].runIds # <<>>
TwoSucceeded(c, s) ==
    /\ twoUpstreams[c][s].response.kind = "response"
    /\ twoUpstreams[c][s].response.status \in 200..299
    /\ twoUpstreams[c][s].response.body.kind = "object"
    /\ twoUpstreams[c][s].response.body.statsTag = "value"
TwoContribution(c, s, f) ==
    IF TwoSucceeded(c, s) THEN twoUpstreams[c][s].response.body.stats[f] ELSE 0
\* the stats the responses of call c determine
TwoOwnStats(c) ==
    [f \in AggregatedFieldSet |->
        CASE f = "leadsFound" -> TwoContribution(c, "apollo", f)
          [] f = "emailsGenerated" -> TwoContribution(c, "emailgen", f)
          [] OTHER -> TwoContribution(c, "postmark", f) + TwoContribution(c, "instantly", f)]
\* the failed upstreams of call c, in dispatch order
TwoOwnFailures(c) ==
    SelectSeq(<<"apollo", "emailgen", "postmark", "instantly">>,
              LAMBDA s : ~TwoSucceeded(c, s))
TwoErrorServices(c) ==
    [k \in 1..Len(twoCalls[c].ret.errors) |-> twoCalls[c].ret.errors[k].service]

(***************************************************************************)
(* C23: two aggregation calls in flight together share no mutable state:  *)
(* under every interleaving of their network calls each call returns the  *)
(* stats and the failed-upstream list its own four responses determine,   *)
(* a returned result is not changed by the other call's steps, and the    *)
(* shared EMPTY_SENDING_STATS record keeps its ten zeros.                 *)
(***************************************************************************)
C23_CallsIndependent ==
    /\ [](sharedEmptyStats = EMPTY_SENDING_STATS)
    /\ [](\A c \in CallIds : TwoDone(c) =>
            /\ twoCalls[c].ret.stats = TwoOwnStats(c)
            /\ TwoErrorServices(c) = TwoOwnFailures(c))
    /\ [][\A c \in CallIds : TwoDone(c) =>
            /\ twoCalls'[c] = twoCalls[c]
            /\ twoUpstreams'[c] = twoUpstreams[c]]_vars

\* the first call returned with both providers failed (the shared record
\* was both operands of the sum) while the second, for the same run, was
\* still waiting, and the second then returned the sums of its own payloads
C23_Witness ==
    /\ TwoDone(1) /\ TwoDone(2)
    /\ twoCalls[2].runIds = twoCalls[1].runIds
    /\ ~TwoSucceeded(1, "postmark") /\ ~TwoSucceeded(1, "instantly")
    /\ TwoSucceeded(2, "instantly")
    /\ twoUpstreams[2]["postmark"].response.body = EmptyObject
    /\ twoCalls[1].ret.stats.emailsSent = 0
    /\ twoCalls[2].ret.stats.emailsSent = 1
    /\ Len(twoCalls[2].ret.errors) = 1

(***************************************************************************)
(* C24: stats come from successful upstreams only: two aggregations whose *)
(* successful upstreams and their payloads are the same return the same   *)
(* stats, whatever the failed upstreams sent (a 500, a 503, a refused     *)
(* connection, a 200 without stats).                                       *)
(***************************************************************************)
SameSuccesses ==
    \A s \in Services :
        /\ TwoSucceeded(1, s) <=> TwoSucceeded(2, s)
        /\ TwoSucceeded(1, s) =>
              twoUpstreams[1][s].response.body.stats = twoUpstreams[2][s].response.body.stats

C24_StatsFromSuccessesOnly ==
    (TwoDone(1) /\ TwoDone(2) /\ SameSuccesses)
    => twoCalls[1].ret.stats = twoCalls[2].ret.stats

\* the same two successes, and three failures that differ in kind or status
C24_Witness ==
    /\ TwoDone(1) /\ TwoDone(2) /\ SameSuccesses
    /\ TwoSucceeded(1, "apollo")
    /\ twoUpstreams[1]["emailgen"].response.kind = "rejected"
    /\ twoUpstreams[2]["emailgen"].response.status = 500
    /\ twoUpstreams[1]["postmark"].response.status = 500
    /\ twoUpstreams[2]["postmark"].response.body = EmptyObject
    /\ twoUpstreams[1]["instantly"].response.status = 500
    /\ twoUpstreams[2]["instantly"].response.status = 503
    /\ twoCalls[1].ret.stats.leadsFound = 1
    /\ twoCalls[1].ret.errors # twoCalls[2].ret.errors

(***************************************************************************)
(* C25: once migration 0009 has run, every campaign in the table has      *)
(* status 'ongoing' or 'stopped', whatever creations, validated PATCH     *)
(* updates and deletions are served before and after it: a created        *)
(* campaign starts 'ongoing', and an update stores 'ongoing' for          *)
(* 'activate', 'stopped' for 'stop' and leaves the status alone when the  *)
(* body has none.                                                          *)
(***************************************************************************)
NormalizedStatuses == {"ongoing", "stopped"}
\* handler h applies its update in this step, to a row that is there
UpdateApplied(h) ==
    /\ patchInFlight[h] # NoPatch
    /\ patchInFlight'[h] = NoPatch
    /\ campaignRows[patchInFlight[h].id] # NoRow

C26_PatchSuccessHasCampaign ==
    (lastRes.method = "PATCH" /\ lastRes.status = 200)
    => /\ lastRes.before # NoRow
       /\ lastRes.campaign # NoRow
       /\ campaignRows[lastRes.id] = lastRes.campaign

(***************************************************************************)
(* C27: tenant isolation of GET, PATCH and DELETE /campaigns/:id: a       *)
(* request of one org on a campaign another org owns is answered 404      *)
(* without a campaign, no response carries a campaign of another org      *)
(* than the caller's, a row is changed or deleted only by a request of    *)
(* its owning org, and no step changes the owning org of a row.           *)
(***************************************************************************)
ForeignRequest ==
    /\ lastRes.method \in {"GET", "PATCH", "DELETE"}
    /\ lastRes.before # NoRow
    /\ lastRes.before.orgId # lastRes.orgId

C27_TenantIsolation ==
    /\ []((ForeignRequest /\ lastRes.status # 400)
             => lastRes.status = 404 /\ lastRes.campaign = NoRow)
    /\ [](lastRes.campaign # NoRow => lastRes.campaign.orgId = lastRes.orgId)
    /\ [][\A id \in CampaignIds :
            (campaignRows[id] # NoRow /\ campaignRows'[id] # campaignRows[id]
               /\ migrated' = migrated)
            => /\ lastRes'.method \in {"PATCH", "DELETE"}
               /\ lastRes'.id = id
               /\ lastRes'.orgId = campaignRows[id].orgId
               /\ lastRes'.status = 200]_vars
    /\ [][\A id \in CampaignIds :
            (campaignRows[id] # NoRow /\ campaignRows'[id] # NoRow)
            => campaignRows'[id].orgId = campaignRows[id].orgId]_vars

\* org_a asked to delete campaign 2 of org_b: 404, and the row is still there
C27_Witness ==
    /\ lastRes.method = "DELETE"
    /\ lastRes.id = 2
    /\ lastRes.orgId = OrgRowId("org_a")
    /\ lastRes.status = 404
    /\ campaignRows[2] # NoRow
    /\ campaignRows[2].orgId = OrgRowId("org_b")
    /\ lastRes.before = campaignRows[2]

(***************************************************************************)
(* Vocabulary for the batch request: what the calls of one task determine *)
(***************************************************************************)
BatchAnswered == batchPc = "responded" /\ batchRes.status = 200
RequestedIds == {batchIds[k] : k \in 1..Len(batchIds)}
TasksOf(id) == {k \in 1..Len(batchTasks) : batchIds[k] = id}
ResultKeys == {id \in BatchCampaignIds : batchRes.body.results[id] # NoEntry}
CallRejected(k) ==
    \/ batchTasks[k].ensureOrganization.kind = "rejected"
    \/ batchTasks[k].listRuns.kind = "rejected"
    \/ batchTasks[k].getRunsBatch.kind = "rejected"
\* the entry the outcomes of task k give its id
OwnEntry(k) ==
    LET t == batchTasks[k]
    IN IF BatchRow(batchIds[k]) = NoRow THEN ErrorBody("Campaign not found")
       ELSE IF t.ensureOrganization.kind = "rejected" \/ t.listRuns.kind = "rejected"
       THEN ErrorBody("Failed to fetch stats")
       ELSE UsageEntry(BatchRow(batchIds[k]), t.listRuns.value,
                       IF t.getRunsBatch.kind = "resolved" THEN t.getRunsBatch.value
                       ELSE <<>>)

(***************************************************************************)
(* C28, as stated: in the answer of POST /campaigns/batch-budget-usage    *)
(* every requested id without a row maps to {error: "Campaign not        *)
(* found"} and every campaign one of whose runs-service calls failed      *)
(* maps to {error: "Failed to fetch stats"}.                              *)
(***************************************************************************)
C28_AsStated ==
    BatchAnswered =>
        \A k \in 1..Len(batchTasks) :
            /\ BatchRow(batchIds[k]) = NoRow
                  => batchRes.body.results[batchIds[k]] = ErrorBody("Campaign not found")
            /\ (BatchRow(batchIds[k]) # NoRow /\ CallRejected(k))
                  => batchRes.body.results[batchIds[k]] = ErrorBody("Failed to fetch stats")

(***************************************************************************)
(* C28, amended: the 200 answer is sent only when every task has          *)
(* finished; results has an entry for exactly the requested ids; an id    *)
(* without a row maps to {error: "Campaign not found"}; the entry of an   *)
(* id is what the calls of a task of that id alone determine, whatever    *)
(* the other tasks did and in whatever order they finished: {error:       *)
(* "Failed to fetch stats"} when ensureOrganization or listRuns failed,   *)
(* the usage entry otherwise, with a null cost when getRunsBatch failed.  *)
(***************************************************************************)
C28_BatchResults ==
    BatchAnswered =>
        /\ Len(batchTasks) = Len(batchIds)
        /\ \A k \in 1..Len(batchTasks) : batchTasks[k].pc = "done"
        /\ batchRes.body.results = batchResults
        /\ ResultKeys = RequestedIds
        /\ \A id \in RequestedIds :
              /\ batchRes.body.results[id] \in {OwnEntry(k) : k \in TasksOf(id)}
              /\ BatchRow(id) = NoRow
                    => batchRes.body.results[id] = ErrorBody("Campaign not found")

\* c1's task ended first, with a failed listRuns; c2's entry is the usage
\* entry of its four runs and their cost
C28_Witness ==
    /\ BatchAnswered
    /\ batchIds = <<"c1", "c2">>
    /\ batchTasks[1].listRuns.kind = "rejected"
    /\ batchTasks[2].getRunsBatch.kind = "resolved"
    /\ batchRes.body.results["c1"] = ErrorBody("Failed to fetch stats")
    /\ batchRes.body.results["c2"].runs.total = 4
    /\ batchRes.body.results["c2"].runs.completed = 2
    /\ batchRes.body.results["c2"].totalCostInUsdCents = "200"
    /\ batchRes.body.results["c9"] = NoEntry

(***************************************************************************)
(* C29: getLeadsForRuns issues one enrichment request per run id, in      *)
(* runIds order and with at most one in flight (the next is issued only   *)
(* when the one before has settled); it returns, in that order, the       *)
(* enrichments of the requests that succeeded; a request that failed, or  *)
(* a response without enrichments, adds nothing and the later runs are    *)
(* still fetched; an empty runIds list gives no request and an empty      *)
(* list.                                                                   *)
(***************************************************************************)
\* what the k-th request delivered
Delivered(k) ==
    IF /\ leadsOutcomes[k].kind = "response"
       /\ leadsOutcomes[k].status \in 200..299
       /\ leadsOutcomes[k].body.kind = "object"
       /\ leadsOutcomes[k].body.hasEnrichments
    THEN leadsOutcomes[k].body.enrichments
    ELSE <<>>
RECURSIVE DeliveredUpTo(_)
DeliveredUpTo(n) == IF n = 0 THEN <<>> ELSE DeliveredUpTo(n - 1) \o Delivered(n)
LeadsInFlight == Len(leadsFetchCalls) - Len(leadsOutcomes)

C29_SequentialFetch ==
    /\ LeadsInFlight \in {0, 1}
    /\ leadsPc \in {"fetching", "parsing"} <=> LeadsInFlight = 1
    /\ Len(leadsFetchCalls) <= Len(leadsRunIds)
    /\ \A k \in 1..Len(leadsFetchCalls) :
          leadsFetchCalls[k] = EnrichmentRequest(leadsRunIds[k], leadsOrg)
    /\ leadsPc = "done" =>
          /\ Len(leadsFetchCalls) = Len(leadsRunIds)
          /\ Len(leadsOutcomes) = Len(leadsRunIds)
          /\ leadsRet = DeliveredUpTo(Len(leadsRunIds))
    /\ (leadsPc # "idle" /\ leadsRunIds = <<>>) =>
          /\ leadsPc = "done"
          /\ leadsFetchCalls = <<>>
          /\ leadsRet = <<>>

\* the request of the first run failed, the second was fetched all the same
\* and its two leads are the result
C29_Witness ==
    /\ leadsPc = "done"
    /\ leadsRunIds = <<"run-1", "run-2">>
    /\ leadsOutcomes[1].status = 500
    /\ Len(leadsFetchCalls) = 2
    /\ leadsFetchCalls[2].url = "/enrichments/run-2"
    /\ leadsRet = <<Lead("run-2", 1), Lead("run-2", 2)>>

(***************************************************************************)
(* Vocabulary for the companies of a list of leads.                        *)
(***************************************************************************)
CompaniesDone == companiesPc = "done"
LeadsNamed(name) == {k \in 1..Len(leadsArg) : leadsArg[k].organizationName = name}
NamedLeads == {k \in 1..Len(leadsArg) : leadsArg[k].organizationName \notin {Null, ""}}
FirstLead(name) == CHOOSE k \in LeadsNamed(name) : \A j \in LeadsNamed(name) : k <= j
\* the run ids, other than those of `left`, of the leads named `name`, in
\* input order
RECURSIVE RunIdsUpTo(_, _, _)
RunIdsUpTo(n, name, left) ==
    IF n = 0 THEN <<>>
    ELSE IF leadsArg[n].organizationName = name /\ leadsArg[n].enrichmentRunId \notin left
         THEN Append(RunIdsUpTo(n - 1, name, left), leadsArg[n].enrichmentRunId)
         ELSE RunIdsUpTo(n - 1, name, left)
RECURSIVE SumCounts(_)
SumCounts(n) == IF n = 0 THEN 0 ELSE SumCounts(n - 1) + companiesRet[n].leadsCount

(***************************************************************************)
(* C30, as stated: each company's enrichmentRunIds are the non-null run   *)
(* ids of the leads with its name, in input order.                        *)
(***************************************************************************)
C30_AsStated ==
    CompaniesDone =>
        \A i \in 1..Len(companiesRet) :
            companiesRet[i].enrichmentRunIds
                = RunIdsUpTo(Len(leadsArg), companiesRet[i].name, {Null})

(***************************************************************************)
(* C30, amended: aggregateCompaniesFromLeads returns one company per      *)
(* distinct non-empty organizationName, in order of first appearance and  *)
(* with ids company-0, company-1, ...; leadsCount is the number of leads  *)
(* with that name, so the counts sum to the number of leads that have a   *)
(* name; enrichmentRunIds are the run ids, neither null nor empty, of     *)
(* those leads in input order; domain, industry and employeeCount are     *)
(* those of the first lead with that name, an empty string read as null.  *)
(***************************************************************************)
C30_CompaniesFromLeads ==
    CompaniesDone =>
        /\ {companiesRet[i].name : i \in 1..Len(companiesRet)}
              = {leadsArg[k].organizationName : k \in NamedLeads}
        /\ \A i, j \in 1..Len(companiesRet) :
              i < j => FirstLead(companiesRet[i].name) < FirstLead(companiesRet[j].name)
        /\ SumCounts(Len(companiesRet)) = Cardinality(NamedLeads)
        /\ \A i \in 1..Len(companiesRet) :
              LET c == companiesRet[i]
                  first == leadsArg[FirstLead(c.name)]
              IN /\ c.id = "company-" \o ToString(i - 1)
                 /\ c.leadsCount = Cardinality(LeadsNamed(c.name))
                 /\ c.enrichmentRunIds = RunIdsUpTo(Len(leadsArg), c.name, {Null, ""})
                 /\ c.domain = (IF first.organizationDomain = "" THEN Null
                                ELSE first.organizationDomain)
                 /\ c.industry = (IF first.organizationIndustry = "" THEN Null
                                  ELSE first.organizationIndustry)
                 /\ c.employeeCount = (IF first.organizationSize = "" THEN Null
                                       ELSE first.organizationSize)

\* Globex appears first, then Acme twice: two companies, Acme with two
\* leads, their run ids in order and the domain of its first lead
C30_Witness ==
    /\ CompaniesDone
    /\ Len(leadsArg) = 3
    /\ leadsArg[1].organizationName = "Globex"
    /\ leadsArg[2].organizationDomain = "acme.io"
    /\ leadsArg[3].organizationDomain = "acme.com"
    /\ Len(companiesRet) = 2
    /\ companiesRet[1].id = "company-0" /\ companiesRet[1].name = "Globex"
    /\ companiesRet[2].id = "company-1" /\ companiesRet[2].leadsCount = 2
    /\ companiesRet[2].enrichmentRunIds = <<"run-2", "run-1">>
    /\ companiesRet[2].domain = "acme.io"

====
